---- MODULE Spec2Model ----
(***************************************************************************)
(* Dwell-time / flow-anomaly analysis engine of hex_api.                   *)
(*                                                                         *)
(* One analysis request is served per behaviour: `request` names the       *)
(* component that serves it.  Every component is a pure transform of an    *)
(* input snapshot, so each has an input-building action (the ingestion     *)
(* collaborator handing over records) and one action per entry point.      *)
(*                                                                         *)
(* Time is counted in whole seconds of one calendar day (the inputs are    *)
(* 'YYYY-MM-DD HH:MM:SS' strings, compared as strings by SQLite and        *)
(* parsed by strptime in Python; on one day both orders are the order of   *)
(* the second-of-day).  All records belong to the service's line.          *)
(***************************************************************************)
EXTENDS Integers, Sequences, FiniteSets, TLC

VARIABLES
    request,        \* which component serves this behaviour's request
    pc,             \* "input" while the snapshot is handed over, then how the call ended
    records_table,  \* ECDFService: the rows of records_table (the store)
    dur_call,       \* ECDFService.get_durations: the arguments of the call
    dur_rows,       \* ECDFService.get_durations: the rows returned
    dur_queries,    \* ECDFService.get_durations: statements executed against the store
    ecdf_pairs,     \* ECDFService.get_ecdf: dwell_min of the rows get_durations hands it
    ecdf_call,      \* ECDFService.get_ecdf: grid_step, grid_max, eval_at of the call
    ecdf_out,       \* ECDFService.get_ecdf: the dict returned
    suspicious_pcbs,\* pcb_held: the suspicious units handed to the batch detector
    batch_call,     \* detect_batch_hiding_patterns: time_window_minutes, min_batch_size
    batch_out,      \* detect_batch_hiding_patterns: the dict returned
    clock,          \* the wall clock of the host, in seconds
    raw_data,       \* analyze_production_hiding_patterns: the rows of the feeding query
    reports,        \* analyze_production_hiding_patterns: the calls made, arguments and result
    flow_data,      \* calculate_station_flow_analysis: the process-flow records
    flow_out,       \* calculate_station_flow_analysis: the dict returned
    flow_counts,    \* one adjacent stage pair: completions of the current and the next stage
    flow_entry,     \* one adjacent stage pair: its entry in flow_analysis
    hourly_data,    \* compute_hourly_ct_table: the process-flow records
    hourly_call,    \* compute_hourly_ct_table: max_cycle_seconds of the call
    hourly_out,     \* compute_hourly_ct_table: the dict returned
    pct_in,         \* _safe_percentile: sorted_values and q of the call
    pct_out,        \* _safe_percentile: the value returned
    arr_data,       \* calculate_expected_station_arrivals: the process-flow records
    arr_cycle,      \* calculate_expected_station_arrivals: median_seconds of cycle_times
    expected_arrivals, \* calculate_expected_station_arrivals: the entries appended, in order
    arr_out,        \* calculate_expected_station_arrivals: the dict returned
    day_data,       \* analyze_hourly_production_flow: the process-flow records
    day_out,        \* analyze_hourly_production_flow: the dict returned
    score_in,       \* calculate_hiding_evidence_score: the arguments of the call
    score_out       \* calculate_hiding_evidence_score: the score returned, in tenths

durVars == <<records_table, dur_call, dur_rows, dur_queries>>

ecdfVars == <<ecdf_pairs, ecdf_call, ecdf_out>>

hideVars == <<suspicious_pcbs, batch_call, batch_out>>

analyzeVars == <<clock, raw_data, reports>>

flowVars == <<flow_data, flow_out, flow_counts, flow_entry>>

hourlyVars == <<hourly_data, hourly_call, hourly_out, pct_in, pct_out>>

arrVars == <<arr_data, arr_cycle, expected_arrivals, arr_out>>

dayVars == <<day_data, day_out>>

scoreVars == <<score_in, score_out>>

vars ==
    <<request, pc, durVars, ecdfVars, hideVars, analyzeVars, flowVars, hourlyVars, arrVars, dayVars, scoreVars>>

\* What the actions of one component leave alone.
exceptDur == <<ecdfVars, hideVars, analyzeVars, flowVars, hourlyVars, arrVars, dayVars, scoreVars, scoreVars>>

exceptEcdf == <<durVars, hideVars, analyzeVars, flowVars, hourlyVars, arrVars, dayVars, scoreVars, scoreVars>>

exceptHide == <<durVars, ecdfVars, analyzeVars, flowVars, hourlyVars, arrVars, dayVars, scoreVars, scoreVars>>

exceptAnalyze == <<durVars, ecdfVars, hideVars, flowVars, hourlyVars, arrVars, dayVars, scoreVars, scoreVars>>

exceptFlow == <<durVars, ecdfVars, hideVars, analyzeVars, hourlyVars, arrVars, dayVars, scoreVars, scoreVars>>

exceptHourly == <<durVars, ecdfVars, hideVars, analyzeVars, flowVars, arrVars, dayVars, scoreVars>>

exceptArr == <<durVars, ecdfVars, hideVars, analyzeVars, flowVars, hourlyVars, dayVars, scoreVars>>

exceptDay == <<durVars, ecdfVars, hideVars, analyzeVars, flowVars, hourlyVars, arrVars, scoreVars>>

exceptScore == <<durVars, ecdfVars, hideVars, analyzeVars, flowVars, hourlyVars, arrVars, dayVars>>

(***************************************************************************)
(* Generic helpers                                                         *)
(***************************************************************************)
None == "None"

SetMin(S) == CHOOSE x \in S : \A y \in S : x <= y

SetMax(S) == CHOOSE x \in S : \A y \in S : x >= y

Range(s) == {s[i] : i \in 1..Len(s)}

\* All orderings of the finite set S as sequences without repetition.
Orderings(S) ==
    {s \in [1..Cardinality(S) -> S] : \A i, j \in 1..Cardinality(S) : i # j => s[i] # s[j]}

(***************************************************************************)
(* ECDFService (src/core/services/ECDFService.py)                          *)
(***************************************************************************)
STATIONS ==
    {"PTH_INPUT", "TOUCH_INSPECT", "TOUCH_UP", "ICT", "FT1", "FINAL_VI", "FINAL_INSPECT", "PACKING"}

FLOW_GROUPS == STATIONS

REPAIR_GROUPS == {"TUP_REPAIR", "ICT_REPAIR", "FT_REPAIR"}

\* Bounds of the store explored.
MaxRecords == 3

Units == {"U1", "U2"}

\* 10:00:00, 10:00:20, 10:02:00, 10:05:00 as seconds of the day.
Times == {36000, 36020, 36120, 36300}

\* group_name / error_flag combinations that a query can tell apart.
RecordKinds ==
    {<<"FINAL_INSPECT", 0>>, <<"FINAL_INSPECT", 1>>, <<"PACKING", 0>>, <<"PACKING", 1>>,
     <<"FINAL_VI", 1>>, <<"FT_REPAIR", 0>>}

Records ==
    {[ppid |-> u, group_name |-> k[1], collected_timestamp |-> t, error_flag |-> k[2]] :
        u \in Units, k \in RecordKinds, t \in Times}

\* "no start_dt / end_dt given" (Optional[str] = None)
NoDt == -1

DefaultCap == 1440

\* SQLite julianday(): the Julian day number as an IEEE double.  For dates of
\* this century the double lies in [2^21, 2^22), so it is a multiple of 2^-31
\* day; its day-fraction, in units of 2^-31 day, is s * 2^31 / 86400 =
\* s * 2^24 / 675 rounded to nearest (675 is odd: no ties), s the second of
\* the day.  2^24 = 675 * 24855 + 91 keeps the arithmetic in 32 bits.
RoundDiv(a, b) == (2 * a + b) \div (2 * b)

julianday(s) ==
    LET q == s \div 675
        r == s % 675
    IN  q * 16777216 + r * 24855 + RoundDiv(r * 91, 675)

\* (julianday(t_to) - julianday(t_from)) * 1440, in units of 2^-26 minute
\* (1440 = 2^5 * 45).  The subtraction and the product are exact in doubles.
DwellRaw(t_from, t_to) == (julianday(t_to) - julianday(t_from)) * 45

\* One minute in the unit of DwellRaw.
MinuteUnits == 2^26

\* CAST(ROUND(x) AS INT): SQLite rounds half away from zero.
dwell_min(t_from, t_to) ==
    LET x == DwellRaw(t_from, t_to)
    IN  IF x >= 0 THEN (x + MinuteUnits \div 2) \div MinuteUnits
        ELSE 0 - ((0 - x + MinuteUnits \div 2) \div MinuteUnits)

\* x BETWEEN 0 AND cap, x the unrounded dwell in minutes (a double).
CapFilter(t_from, t_to, cap) ==
    LET x == DwellRaw(t_from, t_to)
    IN  /\ x >= 0
        /\ (x \div MinuteUnits) + (IF x % MinuteUnits = 0 THEN 0 ELSE 1) <= cap

\* from_ev: per ppid the earliest error-free event at stage_from.
from_ev(tbl, stage_from) ==
    LET ok(u) == {r \in tbl : r.ppid = u /\ r.group_name = stage_from /\ r.error_flag = 0}
    IN  {[ppid |-> u, t_from |-> SetMin({r.collected_timestamp : r \in ok(u)})] :
            u \in {r.ppid : r \in {x \in tbl : ok(x.ppid) # {}}}}

\* to_ev: per ppid the earliest error-free event at stage_to strictly after t_from.
to_ev(tbl, stage_from, stage_to) ==
    LET after(f) == {r \in tbl : /\ r.ppid = f.ppid
                                 /\ r.group_name = stage_to
                                 /\ r.error_flag = 0
                                 /\ r.collected_timestamp > f.t_from}
    IN  {[ppid |-> f.ppid, t_to |-> SetMin({r.collected_timestamp : r \in after(f)})] :
            f \in {g \in from_ev(tbl, stage_from) : after(g) # {}}}

\* pairs: from_ev JOIN to_ev USING(ppid)
pairs(tbl, stage_from, stage_to) ==
    {[ppid |-> f.ppid, t_from |-> f.t_from, t_to |-> k.t_to] :
        <<f, k>> \in {fk \in from_ev(tbl, stage_from) \X to_ev(tbl, stage_from, stage_to) :
                        fk[1].ppid = fk[2].ppid}}

\* ppids_with_errors: an error-flagged flow-stage event BETWEEN t_from AND t_to.
ppids_with_errors(tbl, ps) ==
    {p.ppid : p \in {q \in ps : \E r \in tbl :
        /\ r.ppid = q.ppid
        /\ r.group_name \in FLOW_GROUPS
        /\ r.error_flag = 1
        /\ r.collected_timestamp >= q.t_from
        /\ r.collected_timestamp <= q.t_to}}

\* ppids_with_repairs: a repair-group event BETWEEN t_from AND t_to.
ppids_with_repairs(tbl, ps) ==
    {p.ppid : p \in {q \in ps : \E r \in tbl :
        /\ r.ppid = q.ppid
        /\ r.group_name \in REPAIR_GROUPS
        /\ r.collected_timestamp >= q.t_from
        /\ r.collected_timestamp <= q.t_to}}

\* The window clauses on t_from alone, whatever the anchor.
WindowFilterOnStart(p, call) ==
    /\ call.start_dt # NoDt => p.t_from >= call.start_dt
    /\ call.end_dt # NoDt => p.t_from <= call.end_dt

\* The window clauses appended for the anchor.
WindowFilter(p, call) ==
    /\ (call.anchor \in {"start", "both"} /\ call.start_dt # NoDt) => p.t_from >= call.start_dt
    /\ (call.anchor \in {"start", "both"} /\ call.end_dt # NoDt) => p.t_from <= call.end_dt
    /\ (call.anchor \in {"end", "both"} /\ call.start_dt # NoDt) => p.t_to >= call.start_dt
    /\ (call.anchor \in {"end", "both"} /\ call.end_dt # NoDt) => p.t_to <= call.end_dt

\* The statement left in `sql` when it is executed: each censoring block
\* assigns a whole new statement to `sql`, so the last enabled block wins.
FinalSql(call) ==
    LET sql0 == "pairs"
        sql1 == IF call.censor_flow_errors THEN "errors" ELSE sql0
        sql2 == IF call.censor_repairs THEN "repairs" ELSE sql1
    IN  sql2

\* The rows the executed statement selects (before ORDER BY).
SelectedRows(tbl, call) ==
    LET ps == pairs(tbl, call.stage_from, call.stage_to)
        sql == FinalSql(call)
        censored ==
            (IF sql = "errors" THEN ppids_with_errors(tbl, ps) ELSE {})
            \cup (IF sql = "repairs" THEN ppids_with_repairs(tbl, ps) ELSE {})
    IN  {[ppid |-> p.ppid, t_from |-> p.t_from, t_to |-> p.t_to,
          dwell_min |-> dwell_min(p.t_from, p.t_to)] :
            p \in {q \in ps : /\ q.ppid \notin censored
                              /\ WindowFilter(q, call)
                              /\ CapFilter(q.t_from, q.t_to, call.cap_minutes)}}

\* ORDER BY dwell_min DESC: every order of the rows that is descending in
\* dwell_min (SQLite leaves the order of ties open).
OrderByDwellDesc(rows) ==
    {s \in Orderings(rows) :
        \A i, j \in 1..Len(s) : i < j => s[i].dwell_min >= s[j].dwell_min}

\* Arguments explored for get_durations.
ValidDurCalls ==
    [stage_from : {"FINAL_INSPECT"}, stage_to : {"PACKING"},
     start_dt : {NoDt}, end_dt : {NoDt}, anchor : {"start"},
     cap_minutes : {2, 3, DefaultCap},
     censor_flow_errors : BOOLEAN, censor_repairs : BOOLEAN]
    \cup
    [stage_from : {"FINAL_INSPECT"}, stage_to : {"PACKING"},
     start_dt : {NoDt, 36020}, end_dt : {NoDt, 36120}, anchor : {"start", "end", "both"},
     cap_minutes : {DefaultCap},
     censor_flow_errors : BOOLEAN, censor_repairs : BOOLEAN]

\* Calls with an anchor outside 'start'|'end'|'both' or a stage outside STATIONS.
InvalidDurCalls ==
    [stage_from : {"FINAL_INSPECT", "NO_SUCH_STAGE"}, stage_to : {"PACKING", "NO_SUCH_STAGE"},
     start_dt : {NoDt}, end_dt : {NoDt}, anchor : {"start", "middle"},
     cap_minutes : {DefaultCap},
     censor_flow_errors : {TRUE}, censor_repairs : {TRUE}] \ ValidDurCalls

DurCalls == ValidDurCalls \cup InvalidDurCalls

\* No check of the arguments at all.
NotValidated(call) == TRUE

\* The checks made before the statement is completed and executed:
\* _sql_pairs raises ValueError for a stage outside STATIONS, get_durations
\* for an anchor outside 'start'|'end'|'both'.
Validated(call) ==
    /\ call.stage_from \in STATIONS
    /\ call.stage_to \in STATIONS
    /\ call.anchor \in {"start", "end", "both"}

\* The defaults of get_durations' parameters (no window given).
DefaultDurCall ==
    [stage_from |-> "FINAL_INSPECT", stage_to |-> "PACKING",
     start_dt |-> NoDt, end_dt |-> NoDt, anchor |-> "start",
     cap_minutes |-> DefaultCap, censor_flow_errors |-> TRUE, censor_repairs |-> TRUE]

\* The ingestion collaborator stores one more station visit.
InsertRecord ==
    /\ request = "durations"
    /\ pc = "input"
    /\ Cardinality(records_table) < MaxRecords
    /\ \E r \in Records \ records_table : records_table' = records_table \cup {r}
    /\ UNCHANGED <<request, pc, dur_call, dur_rows, dur_queries, exceptDur>>

\* ECDFService.get_durations(...)
get_durations ==
    /\ request = "durations"
    /\ pc = "input"
    /\ \E call \in DurCalls :
        /\ dur_call' = call
        /\ IF Validated(call)
           THEN /\ dur_rows' \in OrderByDwellDesc(SelectedRows(records_table, call))
                /\ dur_queries' = dur_queries + 1
                /\ pc' = "returned"
           ELSE /\ pc' = "raised"
                /\ UNCHANGED <<dur_rows, dur_queries>>
    /\ UNCHANGED <<request, records_table, exceptDur>>

(***************************************************************************)
(* Claims about ECDFService.get_durations                                  *)
(***************************************************************************)
Returned == request = "durations" /\ pc = "returned"

RowOf(u) == {dur_rows[i] : i \in {j \in 1..Len(dur_rows) : dur_rows[j].ppid = u}}

PairOf(u) == {p \in pairs(records_table, dur_call.stage_from, dur_call.stage_to) : p.ppid = u}

\* The unit of the example: from 10:00:00, to 10:05:00.
ExampleUnit(u) == \E p \in PairOf(u) : p.t_from = 36000 /\ p.t_to = 36300

\* ... with an error-flagged event at 10:02:00 on a flow-chain stage.
ErrorAt1002(u) ==
    \E r \in records_table :
        /\ r.ppid = u /\ r.group_name \in FLOW_GROUPS
        /\ r.error_flag = 1 /\ r.collected_timestamp = 36120

HasRepairEvent(u) == \E r \in records_table : r.ppid = u /\ r.group_name \in REPAIR_GROUPS

HasErrorEvent(u) == \E r \in records_table : r.ppid = u /\ r.error_flag = 1

\* C1: whatever censor_repairs is, the example unit with an error-flagged
\* event at 10:02:00 is absent from the result when censor_flow_errors=True;
\* with censor_flow_errors=False and no repair event it is returned with
\* dwell_min = 5 (default cap).
C1_ErrorEventCensored ==
    Returned =>
        \A u \in Units :
            (ExampleUnit(u) /\ ErrorAt1002(u)) =>
                /\ dur_call.censor_flow_errors => RowOf(u) = {}
                /\ (/\ ~dur_call.censor_flow_errors
                    /\ ~HasRepairEvent(u)
                    /\ dur_call.cap_minutes = DefaultCap
                    /\ dur_call.start_dt = NoDt /\ dur_call.end_dt = NoDt)
                        => \E r \in RowOf(u) : r.dwell_min = 5

\* C2: every returned pair has t_to > t_from and 0 < dwell_min <= cap_minutes,
\* and an uncensored pair whose dwell is exactly cap_minutes is returned.
C2_CapBoundary ==
    Returned =>
        /\ \A i \in 1..Len(dur_rows) :
            /\ dur_rows[i].t_to > dur_rows[i].t_from
            /\ dur_rows[i].dwell_min > 0
            /\ dur_rows[i].dwell_min <= dur_call.cap_minutes
        /\ \A u \in Units :
            (/\ ~HasRepairEvent(u) /\ ~HasErrorEvent(u)
             /\ dur_call.start_dt = NoDt /\ dur_call.end_dt = NoDt
             /\ \E p \in PairOf(u) : p.t_to - p.t_from = 60 * dur_call.cap_minutes)
                => RowOf(u) # {}

\* The arguments of the call are outside what get_durations accepts.
InvalidCall ==
    \/ dur_call.anchor \notin {"start", "end", "both"}
    \/ dur_call.stage_from \notin STATIONS
    \/ dur_call.stage_to \notin STATIONS

\* C15: a call of get_durations with an anchor outside start, end, both or a
\* stage outside the station chain raises before any statement is executed
\* against the store, and returns no row.
C15_InvalidArgsRejected ==
    (request = "durations" /\ pc # "input" /\ InvalidCall)
    => /\ pc = "raised"
       /\ dur_queries = 0
       /\ dur_rows = <<>>

\* C15 witness: a call with an unknown anchor has raised although the store
\* holds a pair of the default stages that the default call would return.
C15_Witness ==
    /\ request = "durations"
    /\ pc = "raised"
    /\ dur_call.anchor = "middle"
    /\ dur_call.stage_from = "FINAL_INSPECT"
    /\ dur_call.stage_to = "PACKING"
    /\ SelectedRows(records_table, DefaultDurCall) # {}
    /\ dur_queries = 0
    /\ dur_rows = <<>>

\* An error-flagged event of the unit at a chain stage strictly between the
\* two ends of its pair.
ErrorStrictlyBetween(u) ==
    \E p \in PairOf(u) : \E r \in records_table :
        /\ r.ppid = u /\ r.group_name \in FLOW_GROUPS
        /\ r.error_flag = 1
        /\ r.collected_timestamp > p.t_from
        /\ r.collected_timestamp < p.t_to

\* C19: with censor_flow_errors and without censor_repairs, a unit whose pair
\* passes the cap filter (no window is given) is dropped iff it has an
\* error-flagged event at a chain stage strictly between t_from and t_to.
C19_DroppedIffErrorStrictlyBetween ==
    (Returned /\ dur_call.censor_flow_errors /\ ~dur_call.censor_repairs) =>
        \A u \in Units :
            (\E p \in PairOf(u) : /\ WindowFilter(p, dur_call)
                                   /\ CapFilter(p.t_from, p.t_to, dur_call.cap_minutes))
                => (RowOf(u) = {} <=> ErrorStrictlyBetween(u))

\* t lies in the window [start_dt, end_dt] of the call, a bound not given
\* being no bound.
InCallWindow(t) ==
    /\ dur_call.start_dt # NoDt => t >= dur_call.start_dt
    /\ dur_call.end_dt # NoDt => t <= dur_call.end_dt

\* The rows of the same call made without a window: the pairs that meet its
\* cap and censoring conditions.
RowsWithoutWindow ==
    SelectedRows(records_table, [dur_call EXCEPT !.start_dt = NoDt, !.end_dt = NoDt])

\* C27: with anchor=start every returned pair has t_from in [start_dt,
\* end_dt], with anchor=end t_to, with anchor=both both; and no pair that
\* meets the window, cap and censoring conditions is left out.
C27_WindowFilter ==
    Returned =>
        /\ \A i \in 1..Len(dur_rows) :
            /\ dur_call.anchor \in {"start", "both"} => InCallWindow(dur_rows[i].t_from)
            /\ dur_call.anchor \in {"end", "both"} => InCallWindow(dur_rows[i].t_to)
        /\ \A r \in RowsWithoutWindow :
            (/\ dur_call.anchor \in {"start", "both"} => InCallWindow(r.t_from)
             /\ dur_call.anchor \in {"end", "both"} => InCallWindow(r.t_to))
                => \E i \in 1..Len(dur_rows) : dur_rows[i] = r

\* C27 witness: a call with anchor=end and the window [10:00:20, 10:02:00]
\* returns a pair that started before the window and ended on its last second.
C27_Witness ==
    /\ Returned
    /\ dur_call.anchor = "end"
    /\ dur_call.start_dt = 36020
    /\ dur_call.end_dt = 36120
    /\ Len(dur_rows) = 1
    /\ dur_rows[1].t_from = 36000
    /\ dur_rows[1].t_to = 36120

(***************************************************************************)
(* ECDFService.get_ecdf                                                    *)
(***************************************************************************)
\* get_ecdf: grid_step=10, grid_max=None, eval_at=None.  An Optional value
\* is a sequence: <<>> for None, <<v>> for v.
DefaultGridStep == 10

DefaultEcdfCall == [grid_step |-> DefaultGridStep, grid_max |-> <<>>, eval_at |-> <<>>]

\* The dict returned for `not pairs`: n = 0, empty grid, null percentiles and support.
EmptyEcdf ==
    [n |-> 0, percentiles |-> <<>>, grid_t |-> <<>>, grid_F |-> <<>>,
     support |-> <<>>, F_at |-> <<>>]

MaxPairs == 3

MaxDwell == 4

MaxStep == 3

\* dwell_min IS NULL (julianday of a timestamp SQLite cannot parse)
NullDwell == -1

\* Python's bisect.bisect_right(a, x): binary search on the sorted list a
\* (lo, hi are 0-based, a is 1-based here).
RECURSIVE bisect_left_search(_, _, _, _)
bisect_left_search(a, x, lo, hi) ==
    IF lo < hi
    THEN LET mid == (lo + hi) \div 2
         IN  IF a[mid + 1] < x THEN bisect_left_search(a, x, mid + 1, hi)
             ELSE bisect_left_search(a, x, lo, mid)
    ELSE lo

RECURSIVE bisect_search(_, _, _, _)
bisect_search(a, x, lo, hi) ==
    IF lo < hi
    THEN LET mid == (lo + hi) \div 2
         IN  IF x < a[mid + 1] THEN bisect_search(a, x, lo, mid)
             ELSE bisect_search(a, x, mid + 1, hi)
    ELSE lo

bisect_left(a, x) == bisect_left_search(a, x, 0, Len(a))

bisect_right(a, x) == bisect_search(a, x, 0, Len(a))

\* sorted(int(r["dwell_min"]) for r in pairs if r.get("dwell_min") is not None)
Durations(prs) ==
    SortSeq(SelectSeq(prs, LAMBDA d : d # NullDwell), LAMBDA a, b : a < b)

\* list(range(0, grid_max + 1, grid_step))
GridPoints(grid_max, grid_step) == [i \in 1..(grid_max \div grid_step + 1) |-> (i - 1) * grid_step]

\* pct(p): durations[max(0, min(int(p * n + 0.999999) - 1, n - 1))], p = p100 / 100
PctIndex(p100, n) ==
    LET raw == (p100 * n + 99) \div 100 - 1
        capped == IF raw < n - 1 THEN raw ELSE n - 1
    IN  IF capped > 0 THEN capped ELSE 0

\* k / n as the float F: kept as the fraction num / den.
Frac(k, n) == [num |-> k, den |-> n]

\* The dict built by get_ecdf for a non-empty list of pairs.
EcdfResult(prs, call) ==
    LET durations == Durations(prs)
        n == Len(durations)
        dmin == durations[1]
        dmax == durations[n]
        gm0 == IF call.grid_max = <<>> THEN dmax ELSE call.grid_max[1]
        gm == IF gm0 > 0 THEN gm0 ELSE 0
        step == IF call.grid_step > 1 THEN call.grid_step ELSE 1
        t_grid == GridPoints(gm, step)
    IN  [n |-> n,
         percentiles |-> <<durations[PctIndex(50, n) + 1], durations[PctIndex(90, n) + 1],
                           durations[PctIndex(95, n) + 1], durations[PctIndex(99, n) + 1]>>,
         grid_t |-> t_grid,
         grid_F |-> [i \in 1..Len(t_grid) |-> Frac(bisect_right(durations, t_grid[i]), n)],
         support |-> <<dmin, dmax>>,
         F_at |-> [i \in 1..Len(call.eval_at) |->
                     [t |-> call.eval_at[i],
                      F |-> Frac(bisect_right(durations, call.eval_at[i]), n)]]]

\* Arguments explored for get_ecdf.
EvalPoints == (-1)..(MaxDwell + 1)

EcdfCalls ==
    [grid_step : 0..MaxStep,
     grid_max : {<<>>} \cup {<<g>> : g \in (-1)..(MaxDwell + 1)},
     eval_at : {<<>>} \cup {<<t>> : t \in EvalPoints} \cup {<<t, u>> : t \in EvalPoints, u \in EvalPoints}]

\* get_durations hands get_ecdf one more row (ORDER BY dwell_min DESC, NULLs last).
ReturnPair ==
    /\ request = "ecdf"
    /\ pc = "input"
    /\ Len(ecdf_pairs) < MaxPairs
    /\ \E d \in {NullDwell} \cup 0..MaxDwell :
        /\ ecdf_pairs # <<>> => d <= ecdf_pairs[Len(ecdf_pairs)]
        /\ ecdf_pairs' = Append(ecdf_pairs, d)
    /\ UNCHANGED <<request, pc, ecdf_call, ecdf_out, exceptEcdf>>

\* ECDFService.get_ecdf(...): `not pairs` returns the empty result; a list of
\* pairs without any dwell_min raises IndexError at durations[0].
get_ecdf ==
    /\ request = "ecdf"
    /\ pc = "input"
    /\ \E call \in EcdfCalls :
        /\ ecdf_call' = call
        /\ IF ecdf_pairs = <<>>
           THEN pc' = "returned" /\ ecdf_out' = EmptyEcdf
           ELSE IF Durations(ecdf_pairs) = <<>>
           THEN pc' = "raised" /\ ecdf_out' = ecdf_out
           ELSE pc' = "returned" /\ ecdf_out' = EcdfResult(ecdf_pairs, call)
    /\ UNCHANGED <<request, ecdf_pairs, exceptEcdf>>

(***************************************************************************)
(* Claims about ECDFService.get_ecdf                                       *)
(***************************************************************************)
EcdfReturned == request = "ecdf" /\ pc = "returned" /\ ecdf_out.n > 0

IsOne(F) == F.num = F.den

IsZero(F) == F.num = 0 /\ F.den > 0

\* F <= G for fractions with positive denominators
FracLeq(F, G) == F.num * G.den <= G.num * F.den

LastGridT == ecdf_out.grid_t[Len(ecdf_out.grid_t)]

LastGridF == ecdf_out.grid_F[Len(ecdf_out.grid_F)]

SampleMax == ecdf_out.support[2]

SampleMin == ecdf_out.support[1]

\* C3 (as claimed): for every non-empty sample, grid_step and grid_max, the F
\* value at the last grid point is 1.0.
C3_LastGridIsOne == EcdfReturned => IsOne(LastGridF)

\* C3 (amended): the F value at the last grid point is 1.0 exactly when the
\* last grid point is at or above max(sample).
C3_LastGridIsOneIffCoversMax ==
    EcdfReturned => (IsOne(LastGridF) <=> LastGridT >= SampleMax)

\* Witness of C3: a default grid whose last point reaches max(sample) over a
\* sample of two different durations.
C3_Witness ==
    /\ EcdfReturned
    /\ ecdf_call.grid_max = <<>>
    /\ ecdf_call.grid_step = 2
    /\ SampleMin = 1
    /\ SampleMax = 4
    /\ LastGridT = 4
    /\ IsOne(LastGridF)

\* The points (t, F) of the result: the grid and the F_at evaluations.
EcdfPoints ==
    {[t |-> ecdf_out.grid_t[i], F |-> ecdf_out.grid_F[i]] : i \in 1..Len(ecdf_out.grid_t)}
    \cup Range(ecdf_out.F_at)

\* C4: the F values of the grid and of F_at are non-decreasing in t, lie in
\* [0,1], are 1.0 for every t >= max(sample) and 0.0 for every t < min(sample).
C4_EcdfShape ==
    EcdfReturned =>
        /\ \A p \in EcdfPoints :
            /\ p.F.den = ecdf_out.n
            /\ 0 <= p.F.num /\ p.F.num <= p.F.den
            /\ p.t >= SampleMax => IsOne(p.F)
            /\ p.t < SampleMin => IsZero(p.F)
        /\ \A p, q \in EcdfPoints : p.t <= q.t => FracLeq(p.F, q.F)

\* Witness of C4: evaluation points below min(sample) and at max(sample), and
\* a grid with an interior value strictly between 0 and 1.
C4_Witness ==
    /\ EcdfReturned
    /\ Len(ecdf_out.F_at) = 2
    /\ ecdf_out.F_at[1].t < SampleMin
    /\ ecdf_out.F_at[2].t = SampleMax
    /\ \E i \in 1..Len(ecdf_out.grid_F) :
        ecdf_out.grid_F[i].num > 0 /\ ecdf_out.grid_F[i].num < ecdf_out.n

\* C16: whenever the duration sample of get_ecdf is empty (no pair returned,
\* or no pair with a non-null dwell_min) the call returns, without raising,
\* the empty result: n = 0, empty grid, null percentiles, null support.
C16_EmptySampleReturnsEmpty ==
    (request = "ecdf" /\ pc # "input" /\ Durations(ecdf_pairs) = <<>>) =>
        (pc = "returned" /\ ecdf_out = EmptyEcdf)

(***************************************************************************)
(* HidingPatternDetector (src/core/analyzer/pcb_held.py)                   *)
(***************************************************************************)
\* detect_batch_hiding_patterns: time_window_minutes=5, min_batch_size=3.
DefaultTimeWindow == 5

DefaultMinBatch == 3

DefaultBatchCall ==
    [time_window_minutes |-> DefaultTimeWindow, min_batch_size |-> DefaultMinBatch]

\* The dict returned when there are fewer suspicious units than min_batch_size.
NotEnoughPcbs ==
    [batch_detected |-> FALSE,
     reason |-> "Not enough suspicious PCBs",
     batches |-> <<>>]

MaxPcbs == 5

\* final_inspect_ts values: 09:00:00, 09:40:00, 10:10:00
InspectTimes == {32400, 34800, 36600}

\* packing_ts values: 12:00:00, 12:04:00, 12:30:00, 13:10:00
PackingTimes == {43200, 43440, 45000, 47400}

\* threshold_minutes = 3 of analyze_production_hiding_patterns
DefaultThresholdMinutes == 3

\* Python's round(a / b, 0) for a >= 0, b > 0: to nearest, ties to even.
RoundHalfEven(a, b) ==
    LET q == a \div b
        r == a % b
    IN  IF 2 * r > b \/ (2 * r = b /\ q % 2 = 1) THEN q + 1 ELSE q

\* get_severity_level(delay_seconds)
get_severity_level(delay_seconds) ==
    IF delay_seconds >= 4 * 3600 THEN "CRITICAL"
    ELSE IF delay_seconds >= 2 * 3600 THEN "HIGH"
    ELSE IF delay_seconds >= 3600 THEN "MEDIUM"
    ELSE "LOW"

\* pcb_analysis of one raw record; diff_seconds is packing_epoch - final_epoch
\* in the query that feeds the analysis.  delay_minutes and delay_hours are
\* kept in hundredths (round(x, 2)).
PcbAnalysis(ppid, final_inspect_ts, packing_ts) ==
    LET diff_seconds == packing_ts - final_inspect_ts
    IN  [ppid |-> ppid,
         final_inspect_time |-> final_inspect_ts,
         packing_time |-> packing_ts,
         delay_seconds |-> diff_seconds,
         delay_minutes |-> RoundHalfEven(diff_seconds * 100, 60),
         delay_hours |-> RoundHalfEven(diff_seconds, 36),
         status |-> "SUSPICIOUS",
         severity |-> get_severity_level(diff_seconds)]

\* The list left in the order given.
Unsorted(xs, keys) == xs

\* sorted(xs, key=...), keys[i] the key of xs[i]: Python's sort is stable.
StableSortBy(xs, keys) ==
    LET rank(i) == Cardinality({j \in 1..Len(xs) :
                        \/ keys[j] < keys[i]
                        \/ (keys[j] = keys[i] /\ j < i)}) + 1
    IN  [r \in 1..Len(xs) |-> xs[CHOOSE i \in 1..Len(xs) : rank(i) = r]]

\* The keys of a dict filled while iterating a list whose elements have the
\* keys `keys`: in order of first insertion.
KeysInOrder(keys) ==
    LET first == {i \in 1..Len(keys) : \A j \in 1..(i - 1) : keys[j] # keys[i]}
    IN  [r \in 1..Cardinality(first) |->
            keys[CHOOSE i \in first : Cardinality({j \in first : j < i}) = r - 1]]

PackingKey(pcb) == pcb.packing_time

InspectKey(pcb) == pcb.final_inspect_time

\* strftime('%Y-%m-%d %H') of a time of the day
HourKey(t) == t \div 3600

\* The loop shared by the two proximity detectors: grow the current cluster
\* while the gap to its last member is <= gap_seconds, close it otherwise and
\* keep it when it has at least min_batch_size members.
RECURSIVE ClusterLoop(_, _, _, _, _, _, _)
ClusterLoop(sorted, i, clusters, current, byPacking, gap_seconds, min_batch_size) ==
    LET keep(cs, c) == IF Len(c) >= min_batch_size THEN Append(cs, c) ELSE cs
        time(pcb) == IF byPacking THEN pcb.packing_time ELSE pcb.final_inspect_time
    IN  IF i > Len(sorted) THEN keep(clusters, current)
        ELSE IF current = <<>>
        THEN ClusterLoop(sorted, i + 1, clusters, <<sorted[i]>>, byPacking, gap_seconds, min_batch_size)
        ELSE IF time(sorted[i]) - time(current[Len(current)]) <= gap_seconds
        THEN ClusterLoop(sorted, i + 1, clusters, Append(current, sorted[i]),
                         byPacking, gap_seconds, min_batch_size)
        ELSE ClusterLoop(sorted, i + 1, keep(clusters, current), <<sorted[i]>>,
                         byPacking, gap_seconds, min_batch_size)

\* detect_packing_time_clusters
detect_packing_time_clusters(pcbs, time_window_minutes, min_batch_size) ==
    ClusterLoop(StableSortBy(pcbs, [i \in 1..Len(pcbs) |-> PackingKey(pcbs[i])]), 1, <<>>, <<>>, TRUE,
                time_window_minutes * 60, min_batch_size)

\* detect_inspection_time_clusters: per inspection hour with at least
\* min_batch_size units, sub-clusters with gaps of at most 30 minutes.
RECURSIVE InspectionGroups(_, _, _, _, _)
InspectionGroups(pcbs, hours, h, clusters, min_batch_size) ==
    IF h > Len(hours) THEN clusters
    ELSE LET group == SelectSeq(pcbs, LAMBDA x : HourKey(x.final_inspect_time) = hours[h])
             sub == IF Len(group) >= min_batch_size
                    THEN ClusterLoop(StableSortBy(group, [i \in 1..Len(group) |-> InspectKey(group[i])]),
                                     1, <<>>, <<>>, FALSE, 1800, min_batch_size)
                    ELSE <<>>
         IN  InspectionGroups(pcbs, hours, h + 1, clusters \o sub, min_batch_size)

InspectHourKey(pcb) == HourKey(pcb.final_inspect_time)

detect_inspection_time_clusters(pcbs, min_batch_size) ==
    InspectionGroups(pcbs, KeysInOrder([i \in 1..Len(pcbs) |-> InspectHourKey(pcbs[i])]),
                     1, <<>>, min_batch_size)

\* key = f"{delay_bucket}min_{packing_hour}h", delay_bucket = int(delay_minutes // 30) * 30
DelayKey(pcb) == <<((pcb.delay_minutes \div 100) \div 30) * 30, HourKey(pcb.packing_time)>>

\* analyze_combined_patterns
analyze_combined_patterns(pcbs, min_batch_size) ==
    LET keys == KeysInOrder([i \in 1..Len(pcbs) |-> DelayKey(pcbs[i])])
        group(k) == SelectSeq(pcbs, LAMBDA x : DelayKey(x) = k)
        kept == SelectSeq(keys, LAMBDA k : Len(group(k)) >= min_batch_size)
    IN  [i \in 1..Len(kept) |-> group(kept[i])]

Ppids(cluster) == {cluster[i].ppid : i \in 1..Len(cluster)}

\* merge_batch_detections, first loop: packing clusters that share no unit
\* with the ones already taken.
RECURSIVE MergePacking(_, _, _, _)
MergePacking(clusters, i, all_batches, processed) ==
    IF i > Len(clusters) THEN [all_batches |-> all_batches, processed |-> processed]
    ELSE IF Ppids(clusters[i]) \cap processed = {}
    THEN MergePacking(clusters, i + 1, Append(all_batches, clusters[i]),
                      processed \cup Ppids(clusters[i]))
    ELSE MergePacking(clusters, i + 1, all_batches, processed)

\* merge_batch_detections, second and third loop: a cluster whose overlap
\* with the processed units is below num/den of its size is reduced to its
\* unprocessed units and kept when at least 3 are left.
MergeMinKeep == 3

RECURSIVE MergeOverlapNoFilter(_, _, _, _, _)
MergeOverlapNoFilter(clusters, i, acc, num, den) ==
    IF i > Len(clusters) THEN acc
    ELSE LET ppids == Ppids(clusters[i])
             overlap == ppids \cap acc.processed
         IN  IF den * Cardinality(overlap) < num * Cardinality(ppids)
                /\ Len(clusters[i]) >= MergeMinKeep
             THEN MergeOverlapNoFilter(clusters, i + 1,
                      [all_batches |-> Append(acc.all_batches, clusters[i]),
                       processed |-> acc.processed \cup ppids], num, den)
             ELSE MergeOverlapNoFilter(clusters, i + 1, acc, num, den)

RECURSIVE MergeOverlap(_, _, _, _, _)
MergeOverlap(clusters, i, acc, num, den) ==
    IF i > Len(clusters) THEN acc
    ELSE LET ppids == Ppids(clusters[i])
             overlap == ppids \cap acc.processed
             new_cluster == SelectSeq(clusters[i], LAMBDA x : x.ppid \notin acc.processed)
         IN  IF den * Cardinality(overlap) < num * Cardinality(ppids)
                /\ Len(new_cluster) >= MergeMinKeep
             THEN MergeOverlap(clusters, i + 1,
                      [all_batches |-> Append(acc.all_batches, new_cluster),
                       processed |-> acc.processed \cup Ppids(new_cluster)], num, den)
             ELSE MergeOverlap(clusters, i + 1, acc, num, den)

\* A merge that takes every cluster of the three detectors as it is.
merge_all_clusters(packing_clusters, inspection_clusters, combined_patterns) ==
    packing_clusters \o inspection_clusters \o combined_patterns

\* merge_batch_detections(packing_clusters, inspection_clusters, combined_patterns)
merge_batch_detections(packing_clusters, inspection_clusters, combined_patterns) ==
    LET a == MergePacking(packing_clusters, 1, <<>>, {})
        b == MergeOverlap(inspection_clusters, 1, a, 5, 10)
        c == MergeOverlap(combined_patterns, 1, b, 3, 10)
    IN  c.all_batches

SeqSum(xs) == LET RECURSIVE sum(_)
                  sum(i) == IF i = 0 THEN 0 ELSE xs[i] + sum(i - 1)
              IN  sum(Len(xs))

\* calculate_standard_deviation(delay_hours) < 0.5: the sample variance
\* sum((x - mean)^2) / (n - 1) is below 0.25, x in hundredths of an hour.
DelayStdBelowHalf(batch) ==
    LET n == Len(batch)
        h == [i \in 1..n |-> batch[i].delay_hours]
        sq == [i \in 1..n |-> h[i] * h[i]]
    IN  n < 2 \/ n * SeqSum(sq) - SeqSum(h) * SeqSum(h) < 2500 * n * (n - 1)

\* calculate_hiding_evidence_score with the quick-packing part given from
\* five units on.
hiding_score_from_five(batch, inspection_period, packing_period, holding_period) ==
    LET batch_size == Len(batch)
        size_part == IF batch_size >= 20 THEN 3
                     ELSE IF batch_size >= 10 THEN 2
                     ELSE IF batch_size >= 5 THEN 1 ELSE 0
        hold_part == IF inspection_period < 60 * 60 /\ holding_period > 120 * 60 THEN 3 ELSE 0
        pack_part == IF packing_period < 10 * 60 /\ batch_size >= 5 THEN 2 ELSE 0
        std_part == IF DelayStdBelowHalf(batch) THEN 2 ELSE 0
        score == size_part + hold_part + pack_part + std_part
    IN  IF score < 10 THEN score ELSE 10

\* calculate_hiding_evidence_score, in tenths; the periods are in seconds.
calculate_hiding_evidence_score(batch, inspection_period, packing_period, holding_period) ==
    LET batch_size == Len(batch)
        size_part == IF batch_size >= 20 THEN 3
                     ELSE IF batch_size >= 10 THEN 2
                     ELSE IF batch_size >= 5 THEN 1 ELSE 0
        hold_part == IF inspection_period < 60 * 60 /\ holding_period > 120 * 60 THEN 3 ELSE 0
        pack_part == IF packing_period < 10 * 60 /\ batch_size > 5 THEN 2 ELSE 0
        std_part == IF DelayStdBelowHalf(batch) THEN 2 ELSE 0
        score == size_part + hold_part + pack_part + std_part
    IN  IF score < 10 THEN score ELSE 10

\* classify_batch_type, the periods in seconds
classify_batch_type(inspection_period, packing_period, holding_period) ==
    IF inspection_period < 30 * 60 /\ packing_period < 10 * 60 THEN "RAPID_BATCH"
    ELSE IF holding_period > 300 * 60 THEN "LONG_HOLD_BATCH"
    ELSE IF inspection_period > 60 * 60 /\ packing_period > 30 * 60 THEN "GRADUAL_BATCH"
    ELSE IF packing_period < 5 * 60 THEN "BURST_RELEASE"
    ELSE "STANDARD_BATCH"

\* analyze_enhanced_batch of a non-empty batch (an empty one raises IndexError
\* at sorted_by_inspection[0]).
analyze_enhanced_batch(batch) ==
    LET inspections == {batch[i].final_inspect_time : i \in 1..Len(batch)}
        packings == {batch[i].packing_time : i \in 1..Len(batch)}
        inspection_period == SetMax(inspections) - SetMin(inspections)
        packing_period == SetMax(packings) - SetMin(packings)
        holding_period == SetMin(packings) - SetMax(inspections)
    IN  [pcb_count |-> Len(batch),
         pcbs |-> [i \in 1..Len(batch) |-> batch[i].ppid],
         inspection_period |-> inspection_period,
         packing_period |-> packing_period,
         holding_period |-> holding_period,
         holding_hours |-> RoundHalfEven(holding_period, 36),
         hiding_evidence_score |->
            calculate_hiding_evidence_score(batch, inspection_period, packing_period, holding_period),
         batch_type |-> classify_batch_type(inspection_period, packing_period, holding_period)]

\* An empty dict
EmptyDict == <<>>

\* calculate_enhanced_batch_statistics(batches, all_suspicious_pcbs);
\* percentages and hours in hundredths, the average score in thousandths.
calculate_enhanced_batch_statistics(batches, all_suspicious_pcbs) ==
    IF batches = <<>> THEN [total_pcbs_in_batches |-> 0]
    ELSE LET n == Len(batches)
             batch_sizes == [i \in 1..n |-> batches[i].pcb_count]
             hiding_scores == [i \in 1..n |-> batches[i].hiding_evidence_score]
             holding_hours == [i \in 1..n |-> batches[i].holding_hours]
         IN  [total_pcbs_in_batches |-> SeqSum(batch_sizes),
              percentage_in_batches |->
                    RoundHalfEven(SeqSum(batch_sizes) * 10000, Len(all_suspicious_pcbs)),
              batch_size_stats |->
                    [avg_batch_size |-> RoundHalfEven(SeqSum(batch_sizes) * 100, n),
                     largest_batch_size |-> SetMax(Range(batch_sizes)),
                     smallest_batch_size |-> SetMin(Range(batch_sizes))],
              hiding_evidence_stats |->
                    [avg_hiding_score |-> RoundHalfEven(SeqSum(hiding_scores) * 100, n),
                     max_hiding_score |-> SetMax(Range(hiding_scores)) * 100,
                     high_evidence_batches |-> Cardinality({i \in 1..n : hiding_scores[i] > 7})],
              timing_stats |->
                    [avg_holding_hours |-> RoundHalfEven(SeqSum(holding_hours), n),
                     max_holding_hours |-> SetMax(Range(holding_hours)),
                     min_holding_hours |-> SetMin(Range(holding_hours))],
              batch_type_distribution |->
                    [t \in {batches[i].batch_type : i \in 1..n} |->
                        Cardinality({i \in 1..n : batches[i].batch_type = t})]]

\* detect_hiding_patterns_advanced(batches); max_severity is Python's max of
\* the severity strings.
detect_hiding_patterns_advanced(batches) ==
    IF batches = <<>> THEN [patterns |-> <<>>]
    ELSE LET n == Len(batches)
             high == Cardinality({i \in 1..n : batches[i].hiding_evidence_score > 7})
             burst == Cardinality({i \in 1..n : batches[i].batch_type = "BURST_RELEASE"})
             long == Cardinality({i \in 1..n : batches[i].batch_type = "LONG_HOLD_BATCH"})
             patterns ==
                (IF high > 0
                 THEN <<[pattern |-> "HIGH_EVIDENCE_HIDING", count |-> high,
                         severity |-> IF high > 2 THEN "CRITICAL" ELSE "HIGH"]>>
                 ELSE <<>>)
                \o (IF burst > 1
                    THEN <<[pattern |-> "SYSTEMATIC_BURST_RELEASE", count |-> burst,
                            severity |-> "HIGH"]>>
                    ELSE <<>>)
                \o (IF long > 0
                    THEN <<[pattern |-> "EXTENDED_HOLDING", count |-> long, severity |-> "HIGH"]>>
                    ELSE <<>>)
         IN  [patterns |-> patterns,
              total_pattern_count |-> Len(patterns),
              max_severity |->
                    IF patterns = <<>> THEN "NONE"
                    ELSE IF \E k \in 1..Len(patterns) : patterns[k].severity = "HIGH" THEN "HIGH"
                    ELSE "CRITICAL"]

\* What detect_batch_hiding_patterns does after its size guard.
BatchReport(pcbs, call) ==
    LET packing_clusters ==
            detect_packing_time_clusters(pcbs, call.time_window_minutes, call.min_batch_size)
        inspection_clusters == detect_inspection_time_clusters(pcbs, call.min_batch_size)
        combined_patterns == analyze_combined_patterns(pcbs, call.min_batch_size)
        all_batches == merge_batch_detections(packing_clusters, inspection_clusters, combined_patterns)
        enhanced_batches == [i \in 1..Len(all_batches) |-> analyze_enhanced_batch(all_batches[i])]
    IN  IF \E i \in 1..Len(all_batches) : all_batches[i] = <<>>
        THEN [raised |-> TRUE, out |-> NotEnoughPcbs]
        ELSE [raised |-> FALSE,
              out |-> [batch_detected |-> Len(all_batches) > 0,
                       total_batches |-> Len(all_batches),
                       batches |-> enhanced_batches,
                       packing_clusters |-> Len(packing_clusters),
                       inspection_clusters |-> Len(inspection_clusters),
                       combined_patterns |-> Len(combined_patterns),
                       batch_statistics |->
                            calculate_enhanced_batch_statistics(enhanced_batches, pcbs),
                       hiding_patterns |-> detect_hiding_patterns_advanced(enhanced_batches),
                       analysis_parameters |-> call]]

\* detect_batch_hiding_patterns: the size guard, then the report.
DetectBatches(pcbs, call) ==
    IF Len(pcbs) < call.min_batch_size
    THEN [raised |-> FALSE, out |-> NotEnoughPcbs]
    ELSE BatchReport(pcbs, call)

\* Arguments explored for detect_batch_hiding_patterns.
BatchCalls ==
    [time_window_minutes : {2, DefaultTimeWindow}, min_batch_size : {0, 2, DefaultMinBatch, 4}]

PpidOf(i) == i

\* The caller hands over one more suspicious unit: the query that feeds the
\* analysis yields one row per ppid, ORDER BY packing_ts DESC, and a unit is
\* suspicious when its delay exceeds threshold_minutes.
AddSuspiciousPcb ==
    /\ request = "batches"
    /\ pc = "input"
    /\ Len(suspicious_pcbs) < MaxPcbs
    /\ \E ins \in InspectTimes, pk \in PackingTimes :
        /\ pk - ins > DefaultThresholdMinutes * 60
        /\ suspicious_pcbs # <<>> => pk <= suspicious_pcbs[Len(suspicious_pcbs)].packing_time
        /\ suspicious_pcbs' =
                Append(suspicious_pcbs, PcbAnalysis(PpidOf(Len(suspicious_pcbs) + 1), ins, pk))
    /\ UNCHANGED <<request, pc, batch_call, batch_out, exceptHide>>

\* detect_batch_hiding_patterns(suspicious_pcbs, time_window_minutes, min_batch_size)
detect_batch_hiding_patterns ==
    /\ request = "batches"
    /\ pc = "input"
    /\ \E call \in BatchCalls :
        /\ batch_call' = call
        /\ LET r == DetectBatches(suspicious_pcbs, call)
           IN  /\ pc' = IF r.raised THEN "raised" ELSE "returned"
               /\ batch_out' = r.out
    /\ UNCHANGED <<request, suspicious_pcbs, exceptHide>>

(***************************************************************************)
(* Claims about detect_batch_hiding_patterns                               *)
(***************************************************************************)
BatchesDone == request = "batches" /\ pc # "input"

BatchesReturned == request = "batches" /\ pc = "returned"

BatchPpids(i) == {batch_out.batches[i].pcbs[j] : j \in 1..Len(batch_out.batches[i].pcbs)}

AllSuspiciousPpids == {suspicious_pcbs[i].ppid : i \in 1..Len(suspicious_pcbs)}

\* The packing times of the suspicious units, sorted, have no gap above the
\* time window of the call.
PackedWithinWindow ==
    \A i \in 1..Len(suspicious_pcbs) :
        \/ \A j \in 1..Len(suspicious_pcbs) :
                suspicious_pcbs[j].packing_time <= suspicious_pcbs[i].packing_time
        \/ \E j \in 1..Len(suspicious_pcbs) :
                /\ suspicious_pcbs[j].packing_time > suspicious_pcbs[i].packing_time
                /\ suspicious_pcbs[j].packing_time - suspicious_pcbs[i].packing_time
                        <= batch_call.time_window_minutes * 60

\* C6: a call of detect_batch_hiding_patterns with min_batch_size <= 0 ends
\* with an error and never with a report.
C6_NonPositiveMinRejected ==
    (BatchesDone /\ batch_call.min_batch_size <= 0) => pc = "raised"

\* C8: in the report of detect_batch_hiding_patterns, whose batches are the
\* result of merge_batch_detections, no ppid is in two different batches.
C8_BatchesDisjoint ==
    BatchesReturned =>
        \A i, j \in 1..Len(batch_out.batches) :
            i # j => BatchPpids(i) \cap BatchPpids(j) = {}

\* C8 witness: a report with two batches, the first from the one packing
\* cluster and the second an inspection cluster reduced to the units the
\* packing cluster had not taken.
C8_Witness ==
    /\ BatchesReturned
    /\ Len(suspicious_pcbs) = 5
    /\ batch_out.total_batches = 2
    /\ batch_out.packing_clusters = 1
    /\ batch_out.inspection_clusters = 1
    /\ batch_out.batches[1].pcb_count = 2
    /\ batch_out.batches[2].pcb_count = 3

\* C9: when the k >= 1 suspicious units, k >= min_batch_size, are packed with
\* no gap above the time window, the report has exactly one batch, of size k,
\* which holds every unit once.
C9_OnePackingBatch ==
    (/\ BatchesDone
     /\ Len(suspicious_pcbs) >= 1
     /\ Len(suspicious_pcbs) >= batch_call.min_batch_size
     /\ PackedWithinWindow)
    => /\ pc = "returned"
       /\ batch_out.batch_detected
       /\ batch_out.total_batches = 1
       /\ Len(batch_out.batches) = 1
       /\ batch_out.batches[1].pcb_count = Len(suspicious_pcbs)
       /\ Len(batch_out.batches[1].pcbs) = Len(suspicious_pcbs)
       /\ BatchPpids(1) = AllSuspiciousPpids

\* C9 witness: 5 units packed in a span of 4 minutes, window 5, minimum 3,
\* which the inspection and the delay-bucket detector cluster as well.
C9_Witness ==
    /\ BatchesReturned
    /\ batch_call = DefaultBatchCall
    /\ Len(suspicious_pcbs) = 5
    /\ suspicious_pcbs[1].packing_time - suspicious_pcbs[5].packing_time = 4 * 60
    /\ batch_out.inspection_clusters >= 1
    /\ batch_out.combined_patterns >= 1
    /\ batch_out.total_batches = 1
    /\ batch_out.batches[1].pcb_count = 5

\* Bound of the lists whose permutations are compared.
MaxPermuted == 4

\* The lists a caller can hand over, of up to MaxPermuted units: one row per
\* ppid, ORDER BY packing_ts DESC, every delay above threshold_minutes.
SuspiciousLists ==
    UNION {{[i \in 1..n |-> PcbAnalysis(PpidOf(i), t[i][1], t[i][2])] :
                t \in {u \in [1..n -> InspectTimes \X PackingTimes] :
                        /\ \A i \in 1..n : u[i][2] - u[i][1] > DefaultThresholdMinutes * 60
                        /\ \A i \in 1..(n - 1) : u[i + 1][2] <= u[i][2]}} :
           n \in 0..MaxPermuted}

\* Bound of the longer lists explored, and the two inspection and two packing
\* instants their units are drawn from.
MaxLong == 7

LongInspectTimes == {32400, 36600}

LongPackingTimes == {43200, 47400}

\* The longer lists a caller can hand over: one row per ppid, ORDER BY
\* packing_ts DESC, every delay above threshold_minutes.
LongLists ==
    UNION {{[i \in 1..n |-> PcbAnalysis(PpidOf(i), t[i][1], t[i][2])] :
                t \in {u \in [1..n -> LongInspectTimes \X LongPackingTimes] :
                        /\ \A i \in 1..n : u[i][2] - u[i][1] > DefaultThresholdMinutes * 60
                        /\ \A i \in 1..(n - 1) : u[i + 1][2] <= u[i][2]}} :
           n \in 0..MaxLong}

\* The permutations of the positions of a list of each length explored.
PositionOrders == [n \in 0..MaxPermuted |-> Orderings(1..n)]

Permuted(pcbs, perm) == [i \in 1..Len(pcbs) |-> pcbs[perm[i]]]

\* The batches detect_batch_hiding_patterns detects in a list: the size guard,
\* the three clusterings, the merge and the analysis of every batch.
DetectedBatches(pcbs, call) ==
    IF Len(pcbs) < call.min_batch_size
    THEN [raised |-> FALSE, batches |-> <<>>]
    ELSE LET all_batches ==
                merge_batch_detections(
                    detect_packing_time_clusters(pcbs, call.time_window_minutes,
                                                 call.min_batch_size),
                    detect_inspection_time_clusters(pcbs, call.min_batch_size),
                    analyze_combined_patterns(pcbs, call.min_batch_size))
         IN  IF \E i \in 1..Len(all_batches) : all_batches[i] = <<>>
             THEN [raised |-> TRUE, batches |-> <<>>]
             ELSE [raised |-> FALSE,
                   batches |-> [i \in 1..Len(all_batches) |->
                                    analyze_enhanced_batch(all_batches[i])]]

\* Batches as a collection: how many there are, and for each its set of member
\* ids with its hiding_evidence_score and batch_type.
BatchCollection(r) ==
    [raised |-> r.raised,
     count |-> Len(r.batches),
     members |-> {<<Range(r.batches[i].pcbs),
                    r.batches[i].hiding_evidence_score,
                    r.batches[i].batch_type>> : i \in 1..Len(r.batches)}]

\* C17: for every permutation of the list of suspicious units given to
\* detect_batch_hiding_patterns, with the same parameters, the detected
\* batches are the same collection of member-id sets, each with the same
\* hiding_evidence_score and batch_type.
C17_OrderIndependent ==
    BatchesDone =>
        \A perm \in PositionOrders[Len(suspicious_pcbs)] :
            BatchCollection(DetectedBatches(Permuted(suspicious_pcbs, perm), batch_call))
                = BatchCollection([raised |-> pc = "raised", batches |-> batch_out.batches])

\* Witness of C17: a call that returned two batches, and a permutation of its
\* list for which the members of a batch are listed in another order.
C17_Witness ==
    /\ BatchesReturned
    /\ Len(suspicious_pcbs) = 4
    /\ batch_out.total_batches = 2
    /\ \E perm \in PositionOrders[4] :
        LET r == DetectedBatches(Permuted(suspicious_pcbs, perm), batch_call)
        IN  /\ ~r.raised
            /\ Len(r.batches) = 2
            /\ r.batches[1].pcbs # batch_out.batches[1].pcbs

\* C18: every batch returned by detect_batch_hiding_patterns has at least
\* min_batch_size members, the batches kept from an inspection or delay
\* cluster after its already claimed members were filtered out included.
C18_BatchesAtLeastMin ==
    BatchesReturned =>
        \A i \in 1..Len(batch_out.batches) :
            batch_out.batches[i].pcb_count >= batch_call.min_batch_size

(***************************************************************************)
(* analyze_production_hiding_patterns (src/core/analyzer/pcb_held.py)      *)
(***************************************************************************)
MaxRaw == 3

MaxClock == 2

MaxCalls == 2

\* final_inspect_ts of the rows: 09:00:00, 11:58:00
RawInspectTimes == {32400, 43080}

\* packing_ts of the rows: 12:00:00, 12:04:00
RawPackingTimes == {43200, 43440}

LineNames == {"J01", "J02"}

ThresholdArgs == {DefaultThresholdMinutes, 5}

\* One row of the feeding query: ppid, final_inspect_ts, packing_ts, diff_seconds.
RawRecord(ppid, final_inspect_ts, packing_ts) ==
    [ppid |-> ppid, final_inspect_ts |-> final_inspect_ts, packing_ts |-> packing_ts,
     diff_seconds |-> packing_ts - final_inspect_ts]

\* pcb_analysis of a row at or below the threshold
NormalPcb(record) ==
    [ppid |-> record.ppid,
     final_inspect_time |-> record.final_inspect_ts,
     packing_time |-> record.packing_ts,
     delay_seconds |-> record.diff_seconds,
     delay_minutes |-> RoundHalfEven(record.diff_seconds * 100, 60),
     delay_hours |-> RoundHalfEven(record.diff_seconds, 36),
     status |-> "NORMAL"]

SuspiciousPcb(record) == PcbAnalysis(record.ppid, record.final_inspect_ts, record.packing_ts)

PackingHourKey(pcb) == HourKey(pcb.packing_time)

\* sorted(hour_frequency.items(), key=count, reverse=True)[:3]: pairs
\* <<hour, count>>, hours of equal count in order of first appearance.
most_common_hours(pcbs) ==
    LET hours == KeysInOrder([i \in 1..Len(pcbs) |-> PackingHourKey(pcbs[i])])
        count(h) == Cardinality({i \in 1..Len(pcbs) : PackingHourKey(pcbs[i]) = h})
        items == [k \in 1..Len(hours) |-> <<hours[k], count(hours[k])>>]
        srt == StableSortBy(items, [k \in 1..Len(items) |-> 0 - items[k][2]])
    IN  SubSeq(srt, 1, IF Len(srt) < 3 THEN Len(srt) ELSE 3)

\* detect_hiding_patterns(suspicious_pcbs): the batch detector is called with
\* its default window and minimum.
detect_hiding_patterns(pcbs) ==
    IF pcbs = <<>>
    THEN [pattern_detected |-> FALSE, details |-> "No suspicious PCBs found"]
    ELSE [pattern_detected |-> TRUE,
          severity_breakdown |->
                [sev \in {pcbs[i].severity : i \in 1..Len(pcbs)} |->
                    Cardinality({i \in 1..Len(pcbs) : pcbs[i].severity = sev})],
          most_common_packing_hours |-> most_common_hours(pcbs),
          total_suspicious |-> Len(pcbs),
          longest_delay_hours |-> SetMax({pcbs[i].delay_hours : i \in 1..Len(pcbs)}),
          batch_hiding_patterns |-> DetectBatches(pcbs, DefaultBatchCall).out]

\* d.get(key, default)
DictGet(d, key, default) == IF key \in DOMAIN d THEN d[key] ELSE default

\* generate_recommendations(statistics, patterns): each message by its
\* leading tag; percentages and hours in hundredths.  avg_holding_hours is
\* looked up in batch_statistics itself, where timing_stats holds it.
generate_recommendations(statistics, patterns) ==
    LET suspicious_percentage == DictGet(statistics, "suspicious_percentage", 0)
        load == IF suspicious_percentage > 5000 THEN <<"CRITICAL">>
                ELSE IF suspicious_percentage > 2500 THEN <<"WARNING">>
                ELSE IF suspicious_percentage > 1000 THEN <<"CAUTION">>
                ELSE <<>>
        alert == IF DictGet(statistics, "max_delay_hours", 0) > 600 THEN <<"ALERT">> ELSE <<>>
        hour == IF DictGet(patterns, "pattern_detected", FALSE)
                   /\ DictGet(patterns, "most_common_packing_hours", <<>>) # <<>>
                THEN <<"PATTERN">> ELSE <<>>
        batch_patterns == DictGet(patterns, "batch_hiding_patterns", EmptyDict)
        batch_stats == DictGet(batch_patterns, "batch_statistics", EmptyDict)
        total_batches == DictGet(batch_patterns, "total_batches", 0)
        percentage_in_batches == DictGet(batch_stats, "percentage_in_batches", 0)
        batch == IF ~DictGet(batch_patterns, "batch_detected", FALSE) THEN <<>>
                 ELSE (IF percentage_in_batches > 7000 THEN <<"BATCH HIDING CRITICAL">>
                       ELSE IF percentage_in_batches > 5000 THEN <<"BATCH HIDING WARNING">>
                       ELSE IF total_batches > 1 THEN <<"BATCH PATTERN">>
                       ELSE <<>>)
                      \o (IF DictGet(batch_stats, "avg_holding_hours", 0) > 200
                          THEN <<"EXTENDED HOLDING">> ELSE <<>>)
        recommendations == load \o alert \o hour \o batch
    IN  IF recommendations = <<>> THEN <<"NORMAL">> ELSE recommendations

\* The statistics dict of a non-empty input.
AnalysisStatistics(data, suspicious, normal, threshold_minutes) ==
    LET all_delays == [i \in 1..Len(data) |-> data[i].diff_seconds]
    IN  [total_pcbs |-> Len(data),
         suspicious_count |-> Len(suspicious),
         normal_count |-> Len(normal),
         suspicious_percentage |-> RoundHalfEven(Len(suspicious) * 10000, Len(data)),
         avg_delay_minutes |-> RoundHalfEven(SeqSum(all_delays) * 100, Len(data) * 60),
         max_delay_hours |-> RoundHalfEven(SetMax(Range(all_delays)), 36),
         min_delay_seconds |-> SetMin(Range(all_delays)),
         threshold_minutes |-> threshold_minutes]

\* The dict analyze_production_hiding_patterns returns when the host's clock
\* reads `now`; analysis_timestamp is datetime.now().
AnalysisReport(data, line_name, threshold_minutes, now) ==
    IF data = <<>>
    THEN [line_name |-> line_name, total_pcbs |-> 0, analysis |-> "No data found",
          suspicious_pcbs |-> <<>>, normal_pcbs |-> <<>>, statistics |-> EmptyDict]
    ELSE LET threshold_seconds == threshold_minutes * 60
             held == SelectSeq(data, LAMBDA r : r.diff_seconds > threshold_seconds)
             rest == SelectSeq(data, LAMBDA r : ~(r.diff_seconds > threshold_seconds))
             suspicious == [i \in 1..Len(held) |-> SuspiciousPcb(held[i])]
             normal == [i \in 1..Len(rest) |-> NormalPcb(rest[i])]
             statistics == AnalysisStatistics(data, suspicious, normal, threshold_minutes)
             patterns == detect_hiding_patterns(suspicious)
         IN  [line_name |-> line_name,
              analysis_timestamp |-> now,
              statistics |-> statistics,
              suspicious_pcbs |-> suspicious,
              normal_pcbs |-> normal,
              detected_patterns |-> patterns,
              recommendations |-> generate_recommendations(statistics, patterns)]

\* The feeding query yields one more row: one row per ppid, ORDER BY packing_ts DESC.
AddRawRecord ==
    /\ request = "analyze"
    /\ pc = "input"
    /\ Len(raw_data) < MaxRaw
    /\ \E ins \in RawInspectTimes, pk \in RawPackingTimes :
        /\ raw_data # <<>> => pk <= raw_data[Len(raw_data)].packing_ts
        /\ raw_data' = Append(raw_data, RawRecord(PpidOf(Len(raw_data) + 1), ins, pk))
    /\ UNCHANGED <<request, pc, clock, reports, exceptAnalyze>>

\* A second of wall-clock time passes on the host.
Tick ==
    /\ request = "analyze"
    /\ clock < MaxClock
    /\ clock' = clock + 1
    /\ UNCHANGED <<request, pc, raw_data, reports, exceptAnalyze>>

\* analyze_production_hiding_patterns(raw_data, line_name, threshold_minutes),
\* called on the same snapshot up to MaxCalls times.
analyze_production_hiding_patterns ==
    /\ request = "analyze"
    /\ Len(reports) < MaxCalls
    /\ \E line_name \in LineNames, threshold_minutes \in ThresholdArgs :
        reports' = Append(reports,
            [line_name |-> line_name, threshold_minutes |-> threshold_minutes,
             out |-> AnalysisReport(raw_data, line_name, threshold_minutes, clock)])
    /\ pc' = "returned"
    /\ UNCHANGED <<request, clock, raw_data, exceptAnalyze>>

(***************************************************************************)
(* Claims about analyze_production_hiding_patterns                         *)
(***************************************************************************)
\* C5: two calls of analyze_production_hiding_patterns with the same raw_data,
\* line_name and threshold_minutes return identical reports.
C5_SameArgsSameReport ==
    request = "analyze" =>
        \A i, j \in 1..Len(reports) :
            (/\ reports[i].line_name = reports[j].line_name
             /\ reports[i].threshold_minutes = reports[j].threshold_minutes)
            => reports[i].out = reports[j].out

\* C14: whatever the input, the report has the keys statistics, the two unit
\* lists, detected_patterns and recommendations, detected_patterns has
\* batch_hiding_patterns, and that has batches, batch_statistics and
\* hiding_patterns.
C14_SameKeysAlways ==
    request = "analyze" =>
        \A i \in 1..Len(reports) :
            LET out == reports[i].out
            IN  /\ {"statistics", "suspicious_pcbs", "normal_pcbs",
                    "detected_patterns", "recommendations"} \subseteq DOMAIN out
                /\ "batch_hiding_patterns" \in DOMAIN out.detected_patterns
                /\ {"batches", "batch_statistics", "hiding_patterns"}
                        \subseteq DOMAIN out.detected_patterns.batch_hiding_patterns

(***************************************************************************)
(* calculate_station_flow_analysis (src/core/analyzer/expected_packing.py) *)
(***************************************************************************)
MaxFlowRecords == 2

MaxCompletions == 100

FlowStations ==
    <<"PTH_INPUT", "TOUCH_INSPECT", "TOUCH_UP", "ICT", "FT", "FINAL_VI", "FINAL_INSPECT", "PACKING">>

\* The target hour 10:00:00 .. 11:00:00
TargetStart == 36000

TargetEnd == 39600

\* The value of a station column: absent, None, '' or 'nan' (NoStamp), a
\* string strptime rejects (BadStamp), or a time.
NoStamp == -1

BadStamp == -2

\* Stations whose column varies in the explored records; a record has no key
\* for the other stations.
FlowVarStations == {"FINAL_INSPECT", "PACKING"}

FlowStamps == {NoStamp, BadStamp, TargetStart, TargetEnd}

\* The 'ppid' of a record: no such key, None, or the unit id.
PpidAbsent == -1

PpidNull == 0

\* record.get(station)
StampOf(record, station) ==
    IF station \in DOMAIN record.stamps THEN record.stamps[station] ELSE NoStamp

\* station_time is set and strptime accepts it
Parses(stamp) == stamp # NoStamp /\ stamp # BadStamp

InHour(stamp, start_time, end_time) == Parses(stamp) /\ start_time <= stamp /\ stamp < end_time

\* count_station_completions(data, station, start_time, end_time)
count_station_completions(data, station, start_time, end_time) ==
    Cardinality({i \in 1..Len(data) : InHour(StampOf(data[i], station), start_time, end_time)})

\* find_held_units_between_stations listing only the units without any
\* completion of the next station.
find_not_completed_between_stations(data, current_station, next_station, target_start, target_end) ==
    LET is_held(record) ==
            /\ InHour(StampOf(record, current_station), target_start, target_end)
            /\ ~Parses(StampOf(record, next_station))
        held == SelectSeq(data, is_held)
    IN  [raised |-> \E i \in 1..Len(held) : held[i].ppid = PpidAbsent,
         held_units |-> [i \in 1..Len(held) |->
                            [ppid |-> held[i].ppid,
                             completed_station |-> current_station,
                             completion_time |-> StampOf(held[i], current_station),
                             next_station_status |-> "not_completed",
                             next_completion_time |-> <<>>,
                             holding_location |-> <<current_station, next_station>>]]]

\* find_held_units_between_stations: record['ppid'] of a held record raises
\* KeyError when the record has no such key.
find_held_units_between_stations(data, current_station, next_station, target_start, target_end) ==
    LET is_held(record) ==
            /\ InHour(StampOf(record, current_station), target_start, target_end)
            /\ ~InHour(StampOf(record, next_station), target_start, target_end)
        held == SelectSeq(data, is_held)
        unit(record) ==
            LET next_time == StampOf(record, next_station)
            IN  [ppid |-> record.ppid,
                 completed_station |-> current_station,
                 completion_time |-> StampOf(record, current_station),
                 next_station_status |->
                    IF Parses(next_time) THEN "completed_later" ELSE "not_completed",
                 next_completion_time |-> IF Parses(next_time) THEN <<next_time>> ELSE <<>>,
                 holding_location |-> <<current_station, next_station>>]
    IN  [raised |-> \E i \in 1..Len(held) : held[i].ppid = PpidAbsent,
         held_units |-> [i \in 1..Len(held) |-> unit(held[i])]]

\* An entry of flow_analysis with held_units_count taken without the max(0, .).
FlowEntryUnclamped(current_station, next_station, current_completions, next_completions) ==
    [current_station |-> current_station,
     next_station |-> next_station,
     current_station_completions |-> current_completions,
     next_station_completions |-> next_completions,
     held_units_count |-> current_completions - next_completions,
     flow_efficiency |-> IF current_completions > 0
                         THEN RoundHalfEven(next_completions * 10000, current_completions)
                         ELSE 0]

\* The entry of flow_analysis for one adjacent pair; flow_efficiency, a
\* percentage rounded to 2 decimals, is kept in hundredths.
FlowEntry(current_station, next_station, current_completions, next_completions) ==
    LET potential_held == current_completions - next_completions
    IN  [current_station |-> current_station,
         next_station |-> next_station,
         current_station_completions |-> current_completions,
         next_station_completions |-> next_completions,
         held_units_count |-> IF potential_held > 0 THEN potential_held ELSE 0,
         flow_efficiency |-> IF current_completions > 0
                             THEN RoundHalfEven(next_completions * 10000, current_completions)
                             ELSE 0]

\* The thresholds of critical_flows: held_units > 10 or efficiency < 80.
CriticalHeld == 10

CriticalEfficiency == 80

\* generate_flow_summary: the total held, the first pair of lowest efficiency
\* below 100 among the pairs whose current station has completions (0 for
\* None), the pairs with held units sorted by held units, largest first, the
\* first three of them and the critical ones; a pair is named by its index in
\* flow_analysis.
generate_flow_summary(flow_analysis) ==
    LET n == Len(flow_analysis)
        RECURSIVE worst(_, _, _)
        worst(i, key, eff) ==
            IF i > n THEN [worst_bottleneck |-> key, worst_efficiency |-> eff]
            ELSE IF flow_analysis[i].flow_efficiency < eff
                    /\ flow_analysis[i].current_station_completions > 0
            THEN worst(i + 1, i, flow_analysis[i].flow_efficiency)
            ELSE worst(i + 1, key, eff)
        w == worst(1, 0, 100 * 100)
        IsHeld(i) == flow_analysis[i].held_units_count > 0
        appended == SelectSeq([i \in 1..n |-> i], IsHeld)
        Bottleneck(i) ==
            [flow |-> i,
             current_station |-> flow_analysis[i].current_station,
             next_station |-> flow_analysis[i].next_station,
             held_units |-> flow_analysis[i].held_units_count,
             efficiency |-> flow_analysis[i].flow_efficiency]
        unsorted == [k \in 1..Len(appended) |-> Bottleneck(appended[k])]
        bottlenecks ==
            StableSortBy(unsorted, [k \in 1..Len(unsorted) |-> 0 - unsorted[k].held_units])
        IsCritical(b) == b.held_units > CriticalHeld \/ b.efficiency < CriticalEfficiency * 100
    IN  [total_held_units |-> SeqSum([i \in 1..n |-> flow_analysis[i].held_units_count]),
         worst_bottleneck |-> w.worst_bottleneck,
         worst_efficiency |-> w.worst_efficiency,
         bottleneck_count |-> Len(bottlenecks),
         top_bottlenecks |-> SubSeq(bottlenecks, 1, IF Len(bottlenecks) < 3 THEN Len(bottlenecks) ELSE 3),
         critical_flows |-> SelectSeq(bottlenecks, IsCritical)]

\* calculate_station_flow_analysis(data, target_start, target_end)
FlowAnalysis(data, target_start, target_end) ==
    LET pairs_n == Len(FlowStations) - 1
        station_counts ==
            [i \in 1..Len(FlowStations) |->
                count_station_completions(data, FlowStations[i], target_start, target_end)]
        flow_analysis ==
            [i \in 1..pairs_n |->
                FlowEntry(FlowStations[i], FlowStations[i + 1], station_counts[i], station_counts[i + 1])]
        with_held == {i \in 1..pairs_n : station_counts[i] - station_counts[i + 1] > 0}
        found == [i \in with_held |->
                    find_held_units_between_stations(data, FlowStations[i], FlowStations[i + 1],
                                                     target_start, target_end)]
    IN  [raised |-> \E i \in with_held : found[i].raised,
         out |-> [station_counts |-> station_counts,
                  flow_analysis |-> flow_analysis,
                  held_units |-> [i \in with_held |-> found[i].held_units],
                  summary |-> generate_flow_summary(flow_analysis)]]

NoFlowOut == FlowAnalysis(<<>>, TargetStart, TargetEnd).out

\* The caller hands over one more process-flow record.
AddFlowRecord ==
    /\ request = "flow"
    /\ pc = "input"
    /\ Len(flow_data) < MaxFlowRecords
    /\ \E ppid \in {PpidAbsent, PpidNull, PpidOf(Len(flow_data) + 1)},
          stamps \in [FlowVarStations -> FlowStamps] :
        flow_data' = Append(flow_data, [ppid |-> ppid, stamps |-> stamps])
    /\ UNCHANGED <<request, pc, flow_out, flow_counts, flow_entry, exceptFlow>>

\* calculate_station_flow_analysis(flow_data, target_start, target_end)
calculate_station_flow_analysis ==
    /\ request = "flow"
    /\ pc = "input"
    /\ LET r == FlowAnalysis(flow_data, TargetStart, TargetEnd)
       IN  /\ pc' = IF r.raised THEN "raised" ELSE "returned"
           /\ flow_out' = IF r.raised THEN flow_out ELSE r.out
    /\ UNCHANGED <<request, flow_data, flow_counts, flow_entry, exceptFlow>>

\* The body of the loop over adjacent pairs, for the completions of one pair.
flow_analysis_entry ==
    /\ request = "flow_entry"
    /\ pc = "input"
    /\ flow_entry' = FlowEntry("FINAL_INSPECT", "PACKING", flow_counts.current, flow_counts.next)
    /\ pc' = "returned"
    /\ UNCHANGED <<request, flow_data, flow_out, flow_counts, exceptFlow>>

(***************************************************************************)
(* Claims about calculate_station_flow_analysis                            *)
(***************************************************************************)
\* A record with a unit id, its unparsable timestamps removed.
CleanRecord(record) ==
    [ppid |-> record.ppid,
     stamps |-> [st \in DOMAIN record.stamps |->
                    IF record.stamps[st] = BadStamp THEN NoStamp ELSE record.stamps[st]]]

HasPpid(record) == record.ppid # PpidAbsent /\ record.ppid # PpidNull

RemainingRecords ==
    LET kept == SelectSeq(flow_data, HasPpid)
    IN  [i \in 1..Len(kept) |-> CleanRecord(kept[i])]

\* C7: calculate_station_flow_analysis returns normally whatever records it
\* is given, and its result is the one computed from the records that have a
\* ppid, without their unparsable timestamps.
C7_BadRecordsSkipped ==
    (request = "flow" /\ pc # "input")
    => /\ pc = "returned"
       /\ flow_out = FlowAnalysis(RemainingRecords, TargetStart, TargetEnd).out

\* What C10 says of one entry, given the completions of its two stations;
\* the efficiency is the quotient rounded to 2 decimals.
EntryAsSpecified(entry, current_completions, next_completions) ==
    /\ entry.current_station_completions = current_completions
    /\ entry.next_station_completions = next_completions
    /\ current_completions >= next_completions
            => entry.held_units_count = current_completions - next_completions
    /\ current_completions < next_completions => entry.held_units_count = 0
    /\ current_completions = 0 => entry.flow_efficiency = 0
    /\ current_completions > 0 =>
        LET d == entry.flow_efficiency * current_completions - next_completions * 10000
        IN  2 * d <= current_completions /\ 2 * (0 - d) <= current_completions

CompletionsOf(station) ==
    Cardinality({i \in 1..Len(flow_data) :
        /\ StampOf(flow_data[i], station) >= TargetStart
        /\ StampOf(flow_data[i], station) < TargetEnd})

\* C10: every entry of flow_analysis has held_units_count = max(0, current -
\* next) and flow_efficiency = next / current * 100 (to 2 decimals), 0 when
\* current = 0; completions 100 and 80 give held 20 and efficiency 80.0.
C10_HeldAndEfficiency ==
    /\ (request = "flow" /\ pc = "returned") =>
            \A i \in 1..(Len(FlowStations) - 1) :
                EntryAsSpecified(flow_out.flow_analysis[i],
                                 CompletionsOf(FlowStations[i]), CompletionsOf(FlowStations[i + 1]))
    /\ (request = "flow_entry" /\ pc = "returned") =>
            /\ EntryAsSpecified(flow_entry, flow_counts.current, flow_counts.next)
            /\ (flow_counts.current = 100 /\ flow_counts.next = 80)
                    => flow_entry.held_units_count = 20 /\ flow_entry.flow_efficiency = 8000

\* C10 witness: the entry computed for 100 and 80 completions.
C10_Witness ==
    /\ request = "flow_entry"
    /\ pc = "returned"
    /\ flow_counts.current = 100
    /\ flow_counts.next = 80
    /\ flow_entry.held_units_count = 20
    /\ flow_entry.flow_efficiency = 8000

\* Whether station was completed by record k of flow_data inside the target
\* hour [TargetStart, TargetEnd).
CompletedInHour(k, station) ==
    /\ StampOf(flow_data[k], station) >= TargetStart
    /\ StampOf(flow_data[k], station) < TargetEnd

\* The records held between pair i: current completion inside the hour, next
\* completion absent or outside the hour.
HeldBetween(i) ==
    {k \in 1..Len(flow_data) :
        /\ CompletedInHour(k, FlowStations[i])
        /\ ~CompletedInHour(k, FlowStations[i + 1])}

\* C22: for a pair with held > 0, the held-unit list contains exactly the
\* units whose current-stage completion lies in [start, end) and whose
\* next-stage completion is absent or outside [start, end), each once; a unit
\* whose next-stage completion lies inside the window is never listed.
C22_HeldUnitsListed ==
    (request = "flow" /\ pc = "returned") =>
        \A i \in 1..(Len(FlowStations) - 1) :
            flow_out.flow_analysis[i].held_units_count > 0 =>
                /\ i \in DOMAIN flow_out.held_units
                /\ Len(flow_out.held_units[i]) = Cardinality(HeldBetween(i))
                /\ \A k \in 1..Len(flow_data) :
                    LET listed == {j \in 1..Len(flow_out.held_units[i]) :
                                    flow_out.held_units[i][j].ppid = flow_data[k].ppid}
                    IN  /\ (k \in HeldBetween(i) /\ HasPpid(flow_data[k]))
                                => Cardinality(listed) = 1
                        /\ (k \notin HeldBetween(i) /\ HasPpid(flow_data[k])) => listed = {}

\* C22 witness: two units completed FINAL_INSPECT in the hour; the first
\* completed PACKING at the end of the hour (outside it) and is listed, the
\* second completed PACKING inside the hour and is not.
C22_Witness ==
    /\ request = "flow" /\ pc = "returned"
    /\ Len(flow_data) = 2
    /\ flow_data[1].stamps["FINAL_INSPECT"] = TargetStart
    /\ flow_data[1].stamps["PACKING"] = TargetEnd
    /\ flow_data[2].stamps["FINAL_INSPECT"] = TargetStart
    /\ flow_data[2].stamps["PACKING"] = TargetStart
    /\ flow_out.flow_analysis[7].held_units_count = 1
    /\ Len(flow_out.held_units[7]) = 1
    /\ flow_out.held_units[7][1].ppid = PpidOf(1)
    /\ flow_out.held_units[7][1].next_station_status = "completed_later"

\* C29: for every adjacent pair with held_units_count > 0 the number of
\* enumerated held units is at least held_units_count.
C29_ListedAtLeastCount ==
    (request = "flow" /\ pc = "returned") =>
        \A i \in 1..(Len(FlowStations) - 1) :
            flow_out.flow_analysis[i].held_units_count > 0 =>
                /\ i \in DOMAIN flow_out.held_units
                /\ Len(flow_out.held_units[i]) >= flow_out.flow_analysis[i].held_units_count

\* C29 witness: a count difference of 2 with two units listed, one that never
\* completed PACKING and one that completed it after the hour.
C29_Witness ==
    /\ request = "flow" /\ pc = "returned"
    /\ flow_out.flow_analysis[7].current_station_completions = 2
    /\ flow_out.flow_analysis[7].next_station_completions = 0
    /\ flow_out.flow_analysis[7].held_units_count = 2
    /\ Len(flow_out.held_units[7]) = 2
    /\ {flow_out.held_units[7][j].next_station_status : j \in 1..2}
            = {"completed_later", "not_completed"}

\* C20: an adjacent pair is listed in critical_flows if and only if its
\* held_units_count is above 10 or its flow_efficiency is below 80, whatever
\* the completion counts, current_completions = 0 included.
C20_CriticalIffThreshold ==
    (request = "flow" /\ pc = "returned") =>
        \A i \in 1..(Len(FlowStations) - 1) :
            (\E k \in 1..Len(flow_out.summary.critical_flows) :
                    flow_out.summary.critical_flows[k].flow = i)
            <=> \/ flow_out.flow_analysis[i].held_units_count > 10
                \/ flow_out.flow_analysis[i].flow_efficiency < 80 * 100

(***************************************************************************)
(* compute_hourly_ct_table (src/core/analyzer/ecpv3.py)                    *)
(***************************************************************************)
MaxHourlyRecords == 3

MaxSample == 4

DEFAULT_STATIONS ==
    <<"PTH_INPUT", "TOUCH_INSPECT", "TOUCH_UP", "ICT", "FT1", "FINAL_VI", "FINAL_INSPECT", "PACKING">>

\* max_cycle_seconds: int = 3600
DefaultMaxCycle == 3600

\* The upstream column of the explored records: unparsable, 10:00:00, 11:00:00
UpstreamStamps == {BadStamp, 36000, 39600}

\* The downstream column: absent, 10:00:00, 10:00:10, 10:00:30, 10:01:00,
\* 10:01:10, 11:00:01
DownstreamStamps == {NoStamp, 36000, 36010, 36030, 36060, 36070, 39601}

HourlyRecords ==
    {[stamps |-> [FINAL_INSPECT |-> a, PACKING |-> b]] : a \in UpstreamStamps, b \in DownstreamStamps}

\* q of _safe_percentile, in percent
Quantiles == {25, 50, 75, 90}

\* sorted(values)
SortedSeq(values) == StableSortBy(values, values)

\* _safe_percentile(sorted_values, q) with the two ranks weighted the other
\* way round.
safe_percentile_swapped(sorted_values, q) ==
    LET n == Len(sorted_values)
        pos == (n - 1) * q
        lower == pos \div 100
        upper == IF lower + 1 < n - 1 THEN lower + 1 ELSE n - 1
        frac == pos % 100
    IN  IF n = 0 THEN <<>>
        ELSE IF n = 1 THEN <<sorted_values[1] * 100>>
        ELSE <<sorted_values[lower + 1] * frac + sorted_values[upper + 1] * (100 - frac)>>

\* _safe_percentile(sorted_values, q): q in percent, the result an Optional
\* in hundredths (the float result rounded to 2 decimals; the float noise of
\* the interpolation is far below that).
safe_percentile(sorted_values, q) ==
    LET n == Len(sorted_values)
        pos == (n - 1) * q
        lower == pos \div 100
        upper == IF lower + 1 < n - 1 THEN lower + 1 ELSE n - 1
        frac == pos % 100
    IN  IF n = 0 THEN <<>>
        ELSE IF n = 1 THEN <<sorted_values[1] * 100>>
        ELSE <<sorted_values[lower + 1] * (100 - frac) + sorted_values[upper + 1] * frac>>

\* _safe_percentiles(values)
safe_percentiles(values) ==
    IF values = <<>> THEN [p25 |-> <<>>, p75 |-> <<>>, p90 |-> <<>>]
    ELSE [p25 |-> safe_percentile(SortedSeq(values), 25),
          p75 |-> safe_percentile(SortedSeq(values), 75),
          p90 |-> safe_percentile(SortedSeq(values), 90)]

\* statistics.median(cycles), in hundredths
MedianOf(cycles) ==
    LET srt == SortedSeq(cycles)
        n == Len(srt)
    IN  IF n % 2 = 1 THEN srt[(n + 1) \div 2] * 100
        ELSE (srt[n \div 2] + srt[n \div 2 + 1]) * 50

\* _parse_dt(rec.get(station)): <<>> for None
parse_dt(rec, station) ==
    IF Parses(StampOf(rec, station)) THEN <<StampOf(rec, station)>> ELSE <<>>

\* The records that count as an upstream event of pair i in hour hr.
UpstreamOf(data, i, hr) ==
    SelectSeq(data, LAMBDA rec :
        /\ parse_dt(rec, DEFAULT_STATIONS[i]) # <<>>
        /\ HourKey(parse_dt(rec, DEFAULT_STATIONS[i])[1]) = hr)

\* diff of a record for pair i; called for records whose two stamps parse.
CycleDiff(rec, i) ==
    parse_dt(rec, DEFAULT_STATIONS[i + 1])[1] - parse_dt(rec, DEFAULT_STATIONS[i])[1]

\* Whether a record with a downstream stamp adds to agg_down: any such record.
CountsDownstreamAlways(rec, i, max_cycle_seconds) ==
    parse_dt(rec, DEFAULT_STATIONS[i + 1]) # <<>>

\* Whether a record adds to agg_down, with a diff equal to the cap left out.
CountsDownstreamBelowCap(rec, i, max_cycle_seconds) ==
    /\ parse_dt(rec, DEFAULT_STATIONS[i + 1]) # <<>>
    /\ 0 < CycleDiff(rec, i)
    /\ CycleDiff(rec, i) < max_cycle_seconds

\* Whether a record adds to agg_cycles and agg_down: downstream present and
\* 0 < diff <= max_cycle_seconds.
CountsDownstream(rec, i, max_cycle_seconds) ==
    /\ parse_dt(rec, DEFAULT_STATIONS[i + 1]) # <<>>
    /\ 0 < CycleDiff(rec, i)
    /\ CycleDiff(rec, i) <= max_cycle_seconds

\* The statistics of one (hour, pair); seconds in hundredths, None as <<>>.
PairStats(data, i, hr, max_cycle_seconds) ==
    LET ups == UpstreamOf(data, i, hr)
        valid == SelectSeq(ups, LAMBDA rec :
                    /\ parse_dt(rec, DEFAULT_STATIONS[i + 1]) # <<>>
                    /\ 0 < CycleDiff(rec, i)
                    /\ CycleDiff(rec, i) <= max_cycle_seconds)
        cycles == [k \in 1..Len(valid) |-> CycleDiff(valid[k], i)]
        down == Len(SelectSeq(ups, LAMBDA rec : CountsDownstream(rec, i, max_cycle_seconds)))
        pct == safe_percentiles(cycles)
    IN  IF cycles # <<>>
        THEN [sample_size |-> Len(cycles),
              mean_seconds |-> <<RoundHalfEven(SeqSum(cycles) * 100, Len(cycles))>>,
              median_seconds |-> <<MedianOf(cycles)>>,
              p25_seconds |-> pct.p25,
              p75_seconds |-> pct.p75,
              p90_seconds |-> pct.p90,
              min_seconds |-> <<SetMin(Range(cycles)) * 100>>,
              max_seconds |-> <<SetMax(Range(cycles)) * 100>>,
              upstream_events |-> Len(ups),
              downstream_present |-> down]
        ELSE [sample_size |-> 0,
              mean_seconds |-> <<>>,
              median_seconds |-> <<>>,
              p25_seconds |-> <<>>,
              p75_seconds |-> <<>>,
              p90_seconds |-> <<>>,
              min_seconds |-> <<>>,
              max_seconds |-> <<>>,
              upstream_events |-> Len(ups),
              downstream_present |-> down]

\* The hours of agg_up: those with an upstream event of some pair.
UpstreamHours(data) ==
    {hr \in 0..23 : \E i \in 1..(Len(DEFAULT_STATIONS) - 1) : UpstreamOf(data, i, hr) # <<>>}

\* result["by_date"][date]["hours"] for the one date of the records: per
\* hour, the statistics of every pair (average_seconds equals mean_seconds;
\* std_dev_seconds is not carried).
HourlyTable(data, max_cycle_seconds) ==
    [hr \in UpstreamHours(data) |->
        [i \in 1..(Len(DEFAULT_STATIONS) - 1) |-> PairStats(data, i, hr, max_cycle_seconds)]]

HourlyCalls == {60, DefaultMaxCycle}

NoHourlyOut == HourlyTable(<<>>, DefaultMaxCycle)

\* The caller hands over one more process-flow record.
AddHourlyRecord ==
    /\ request = "hourly"
    /\ pc = "input"
    /\ Len(hourly_data) < MaxHourlyRecords
    /\ \E rec \in HourlyRecords : hourly_data' = Append(hourly_data, rec)
    /\ UNCHANGED <<request, pc, hourly_call, hourly_out, pct_in, pct_out, exceptHourly>>

\* compute_hourly_ct_table(process_flow_data, None, max_cycle_seconds)
compute_hourly_ct_table ==
    /\ request = "hourly"
    /\ pc = "input"
    /\ \E max_cycle_seconds \in HourlyCalls :
        /\ hourly_call' = max_cycle_seconds
        /\ hourly_out' = HourlyTable(hourly_data, max_cycle_seconds)
    /\ pc' = "returned"
    /\ UNCHANGED <<request, hourly_data, pct_in, pct_out, exceptHourly>>

\* _safe_percentile(sorted_values, q) on the arguments drawn at the start.
safe_percentile_call ==
    /\ request = "percentile"
    /\ pc = "input"
    /\ pct_out' = safe_percentile(pct_in.sorted_values, pct_in.q)
    /\ pc' = "returned"
    /\ UNCHANGED <<request, hourly_data, hourly_call, hourly_out, pct_in, exceptHourly>>


(***************************************************************************)
(* Claims about compute_hourly_ct_table and _safe_percentile               *)
(***************************************************************************)
HourlyReturned == request = "hourly" /\ pc = "returned"

HourlyPairs == 1..(Len(DEFAULT_STATIONS) - 1)

\* C11: in every (hour, pair) entry of the table, downstream_present <=
\* upstream_events, both are integers >= 0, and sample_size equals
\* downstream_present, entries of sample_size 0 included.
C11_CountersConsistent ==
    HourlyReturned =>
        \A hr \in DOMAIN hourly_out : \A i \in HourlyPairs :
            LET e == hourly_out[hr][i]
            IN  /\ e.upstream_events \in Nat
                /\ e.downstream_present \in Nat
                /\ e.downstream_present <= e.upstream_events
                /\ e.sample_size = e.downstream_present

\* C11 witness: a table with an entry of 2 upstream events of which 1 has a
\* valid cycle time, and an entry with an upstream event and sample_size 0.
C11_Witness ==
    /\ HourlyReturned
    /\ \E hr \in DOMAIN hourly_out : \E i \in HourlyPairs :
        /\ hourly_out[hr][i].upstream_events = 2
        /\ hourly_out[hr][i].downstream_present = 1
        /\ hourly_out[hr][i].sample_size = 1
    /\ \E hr \in DOMAIN hourly_out : \E i \in HourlyPairs :
        /\ hourly_out[hr][i].upstream_events = 1
        /\ hourly_out[hr][i].downstream_present = 0
        /\ hourly_out[hr][i].sample_size = 0

\* C12: in every entry with sample_size > 0, min_seconds <= p25_seconds <=
\* median_seconds <= p75_seconds <= p90_seconds <= max_seconds.
C12_PercentilesOrdered ==
    HourlyReturned =>
        \A hr \in DOMAIN hourly_out : \A i \in HourlyPairs :
            LET e == hourly_out[hr][i]
            IN  e.sample_size > 0 =>
                    /\ e.min_seconds[1] <= e.p25_seconds[1]
                    /\ e.p25_seconds[1] <= e.median_seconds[1]
                    /\ e.median_seconds[1] <= e.p75_seconds[1]
                    /\ e.p75_seconds[1] <= e.p90_seconds[1]
                    /\ e.p90_seconds[1] <= e.max_seconds[1]

\* C12 witness: an entry of 3 distinct cycle times, the six values strictly
\* increasing.
C12_Witness ==
    /\ HourlyReturned
    /\ \E hr \in DOMAIN hourly_out : \E i \in HourlyPairs :
        LET e == hourly_out[hr][i]
        IN  /\ e.sample_size = 3
            /\ e.min_seconds[1] < e.p25_seconds[1]
            /\ e.p25_seconds[1] < e.median_seconds[1]
            /\ e.median_seconds[1] < e.p75_seconds[1]
            /\ e.p75_seconds[1] < e.p90_seconds[1]
            /\ e.p90_seconds[1] < e.max_seconds[1]

\* The records of hourly_data whose upstream stamp of pair i is a time of
\* hour hr, and those of them whose downstream stamp b exists with
\* 0 < b - a <= max_cycle_seconds.
UpstreamIn(i, hr) ==
    {k \in 1..Len(hourly_data) :
        LET a == StampOf(hourly_data[k], DEFAULT_STATIONS[i])
        IN  a >= 0 /\ a \div 3600 = hr}

DeltaOf(k, i) ==
    StampOf(hourly_data[k], DEFAULT_STATIONS[i + 1]) - StampOf(hourly_data[k], DEFAULT_STATIONS[i])

SampledIn(i, hr) ==
    {k \in UpstreamIn(i, hr) :
        /\ StampOf(hourly_data[k], DEFAULT_STATIONS[i + 1]) >= 0
        /\ 0 < DeltaOf(k, i)
        /\ DeltaOf(k, i) <= hourly_call}

\* C21: every record with a parseable upstream timestamp a adds 1 to
\* upstream_events of the hour bucket of a; it adds its delta to the sample
\* and 1 to downstream_present exactly when the downstream timestamp b exists
\* and 0 < b - a <= max_cycle_seconds.
C21_UpstreamAndSample ==
    HourlyReturned =>
        /\ DOMAIN hourly_out = {hr \in 0..23 : \E i \in HourlyPairs : UpstreamIn(i, hr) # {}}
        /\ \A hr \in DOMAIN hourly_out : \A i \in HourlyPairs :
            LET e == hourly_out[hr][i]
                deltas == {DeltaOf(k, i) : k \in SampledIn(i, hr)}
            IN  /\ e.upstream_events = Cardinality(UpstreamIn(i, hr))
                /\ e.downstream_present = Cardinality(SampledIn(i, hr))
                /\ e.sample_size = Cardinality(SampledIn(i, hr))
                /\ SampledIn(i, hr) # {} =>
                        /\ e.min_seconds = <<100 * SetMin(deltas)>>
                        /\ e.max_seconds = <<100 * SetMax(deltas)>>

\* C21 witness: with a cap of 60 s, three upstream events of one hour whose
\* deltas are 0 s, 60 s and 70 s: only the delta equal to the cap is sampled.
C21_Witness ==
    /\ HourlyReturned
    /\ hourly_call = 60
    /\ Len(hourly_data) = 3
    /\ {DeltaOf(k, 7) : k \in 1..3} = {0, 60, 70}
    /\ hourly_out[10][7].upstream_events = 3
    /\ hourly_out[10][7].downstream_present = 1
    /\ hourly_out[10][7].min_seconds = <<6000>>

PercentileReturned == request = "percentile" /\ pc = "returned"

\* The value, in hundredths, on the line through the two closest ranks of
\* sorted_values at position (n - 1) * q.
BetweenClosestRanks(sorted_values, q) ==
    LET n == Len(sorted_values)
        k == CHOOSE j \in 0..(n - 1) : 100 * j <= (n - 1) * q /\ (n - 1) * q < 100 * (j + 1)
        next == IF k + 2 <= n THEN sorted_values[k + 2] ELSE sorted_values[n]
    IN  100 * sorted_values[k + 1] + ((n - 1) * q - 100 * k) * (next - sorted_values[k + 1])

\* C13: _safe_percentile returns null for an empty list, the value for a
\* list of one, otherwise the linear interpolation between the two closest
\* ranks at position (n - 1) * q; [10, 20, 30, 40] gives p25 = 17.5,
\* median = 25 and p90 = 37.0.
C13_SafePercentile ==
    PercentileReturned =>
        LET xs == pct_in.sorted_values
        IN  /\ Len(xs) = 0 => pct_out = <<>>
            /\ Len(xs) = 1 => pct_out = <<100 * xs[1]>>
            /\ Len(xs) >= 2 => pct_out = <<BetweenClosestRanks(xs, pct_in.q)>>
            /\ xs = <<10, 20, 30, 40>> =>
                    /\ pct_in.q = 25 => pct_out = <<1750>>
                    /\ pct_in.q = 50 => pct_out = <<2500>>
                    /\ pct_in.q = 90 => pct_out = <<3700>>

\* C13 witness: p90 of [10, 20, 30, 40] returned as 37.0.
C13_Witness ==
    /\ PercentileReturned
    /\ pct_in = [sorted_values |-> <<10, 20, 30, 40>>, q |-> 90]
    /\ pct_out = <<3700>>

(***************************************************************************)
(* calculate_expected_station_arrivals                                     *)
(* (src/core/analyzer/expected_packing_v2.py)                              *)
(*                                                                         *)
(* median_seconds is a float with one decimal, so the times computed from  *)
(* it are kept in tenths of a second; strftime drops the fraction.         *)
(***************************************************************************)
MaxArrRecords == 2

ArrStations ==
    <<"PTH_INPUT", "TOUCH_INSPECT", "TOUCH_UP", "ICT", "FT", "FINAL_VI", "FINAL_INSPECT", "PACKING">>

\* cycle_time_data.get('median_seconds', 60), in tenths of a second
DefaultMedian == 600

\* The cycle_times explored, as median_seconds of each adjacent pair: 60.0 for
\* every pair, and 45.5 for FINAL_VI_to_FINAL_INSPECT.
CycleChoices ==
    {[i \in 1..(Len(ArrStations) - 1) |-> DefaultMedian],
     [i \in 1..(Len(ArrStations) - 1) |-> IF i = 6 THEN 455 ELSE DefaultMedian]}

\* The columns of the explored records: FINAL_VI absent, 10:00:00 or
\* 11:00:00; FINAL_INSPECT absent, unparsable, 10:00:00 or 10:01:00; PACKING
\* absent, 10:00:59, 10:01:00, 10:07:00 or 10:07:01.
ArrRecords ==
    {[ppid |-> PpidAbsent, stamps |-> [FINAL_VI |-> 36000, FINAL_INSPECT |-> NoStamp,
                                       PACKING |-> NoStamp]]}
    \cup {[ppid |-> 1, stamps |-> [FINAL_VI |-> a, FINAL_INSPECT |-> b, PACKING |-> c]] :
            a \in {NoStamp, 36000, 39600},
            b \in {NoStamp, BadStamp, 36000, 36060},
            c \in {NoStamp, 36059, 36060, 36420, 36421}}

\* delay_status with the two bounds counted as delayed and early.
DelayStatusBoundsOut(actual_downstream_dt, expected_downstream_dt) ==
    IF actual_downstream_dt = <<>> THEN "not_completed"
    ELSE LET delay_seconds == actual_downstream_dt[1] * 10 - expected_downstream_dt
         IN  IF delay_seconds >= 300 * 10 THEN "delayed"
             ELSE IF delay_seconds <= (0 - 60) * 10 THEN "early"
             ELSE "on_time"

\* delay_status of a hop, from the actual downstream arrival (<<>> for None)
\* and the expected one, in tenths of a second.
DelayStatus(actual_downstream_dt, expected_downstream_dt) ==
    IF actual_downstream_dt = <<>> THEN "not_completed"
    ELSE LET delay_seconds == actual_downstream_dt[1] * 10 - expected_downstream_dt
         IN  IF delay_seconds > 300 * 10 THEN "delayed"
             ELSE IF delay_seconds < (0 - 60) * 10 THEN "early"
             ELSE "on_time"

\* The anchor of a hop taken from the walk alone, whatever the record holds.
AnchorExpectedOnly(actual_upstream_dt, expected_upstream_dt) == expected_upstream_dt

\* anchor_upstream_dt = actual_upstream_dt or expected_upstream_dt
AnchorUpstream(actual_upstream_dt, expected_upstream_dt) ==
    IF actual_upstream_dt # <<>> THEN actual_upstream_dt[1] * 10 ELSE expected_upstream_dt

\* The dict appended for the hop of record to ArrStations[j], current_time
\* being the expected time at ArrStations[j - 1]; expected_downstream_dt is
\* the local of that name, which the next hop starts from.
HopEntry(record, j, current_time, cycle_times) ==
    LET actual_upstream_dt == parse_dt(record, ArrStations[j - 1])
        actual_downstream_dt == parse_dt(record, ArrStations[j])
        expected_downstream_dt ==
            AnchorUpstream(actual_upstream_dt, current_time) + cycle_times[j - 1]
    IN  [downstream_station |-> ArrStations[j],
         ppid |-> record.ppid,
         source_station |-> ArrStations[j - 1],
         source_completion_time |->
            IF actual_upstream_dt # <<>> THEN actual_upstream_dt[1] ELSE current_time \div 10,
         source_time_is_actual |-> actual_upstream_dt # <<>>,
         expected_downstream_dt |-> expected_downstream_dt,
         expected_arrival_time |-> expected_downstream_dt \div 10,
         actual_arrival_time |-> actual_downstream_dt,
         delay_seconds |->
            IF actual_downstream_dt = <<>> THEN <<>>
            ELSE <<actual_downstream_dt[1] * 10 - expected_downstream_dt>>,
         delay_status |-> DelayStatus(actual_downstream_dt, expected_downstream_dt),
         expected_in_target_hour |->
            TargetStart * 10 <= expected_downstream_dt /\ expected_downstream_dt < TargetEnd * 10]

\* The forward walk: the hops to ArrStations[j], ArrStations[j + 1], ...
RECURSIVE WalkFrom(_, _, _, _)
WalkFrom(record, j, current_time, cycle_times) ==
    IF j > Len(ArrStations) THEN <<>>
    ELSE LET entry == HopEntry(record, j, current_time, cycle_times)
         IN  <<entry>> \o WalkFrom(record, j + 1, entry.expected_downstream_dt, cycle_times)

\* The entries appended for one record: a walk from every station but the
\* last that the unit completed in the target hour, from start station i on.
RECURSIVE RecordArrivals(_, _, _)
RecordArrivals(record, i, cycle_times) ==
    IF i > Len(ArrStations) - 1 THEN <<>>
    ELSE (IF InHour(StampOf(record, ArrStations[i]), TargetStart, TargetEnd)
          THEN WalkFrom(record, i + 1, StampOf(record, ArrStations[i]) * 10, cycle_times)
          ELSE <<>>)
         \o RecordArrivals(record, i + 1, cycle_times)

\* The entries appended for the records from the k-th on.
RECURSIVE AllArrivals(_, _, _)
AllArrivals(data, k, cycle_times) ==
    IF k > Len(data) THEN <<>>
    ELSE RecordArrivals(data[k], 1, cycle_times) \o AllArrivals(data, k + 1, cycle_times)

\* The arrivals of one station without any de-duplication.
keep_all_arrivals(arrivals, k, best) == arrivals

\* best_by_ppid of one station: the first entry of a ppid is kept until one
\* with a strictly later source_completion_time comes; from the k-th on.
RECURSIVE best_by_ppid(_, _, _)
best_by_ppid(arrivals, k, best) ==
    IF k > Len(arrivals) THEN best
    ELSE LET a == arrivals[k]
             at == {q \in 1..Len(best) : best[q].ppid = a.ppid}
         IN  IF at = {} THEN best_by_ppid(arrivals, k + 1, Append(best, a))
             ELSE LET q == CHOOSE x \in at : TRUE
                  IN  IF a.source_completion_time > best[q].source_completion_time
                      THEN best_by_ppid(arrivals, k + 1, [best EXCEPT ![q] = a])
                      ELSE best_by_ppid(arrivals, k + 1, best)

\* An entry as it is returned: the dict appended.
ReturnedEntry(entry) ==
    [f \in DOMAIN entry \ {"downstream_station", "expected_downstream_dt"} |-> entry[f]]

\* deduped: per station that has entries, the best entry of every ppid.
Deduped(appended) ==
    LET stations == {appended[k].downstream_station : k \in 1..Len(appended)}
    IN  [station \in stations |->
            LET arrivals == SelectSeq(appended, LAMBDA a : a.downstream_station = station)
                best == best_by_ppid(arrivals, 1, <<>>)
            IN  [q \in 1..Len(best) |-> ReturnedEntry(best[q])]]

NoArrivals == Deduped(<<>>)

\* The records read before record['ppid'] raises KeyError, all of them if
\* none does.
ReadBeforeKeyError(data) ==
    LET bad == {k \in 1..Len(data) : data[k].ppid = PpidAbsent}
    IN  IF bad = {} THEN data ELSE SubSeq(data, 1, SetMin(bad) - 1)

\* The caller hands over one more process-flow record, one per unit.
AddArrivalRecord ==
    /\ request = "arrivals"
    /\ pc = "input"
    /\ Len(arr_data) < MaxArrRecords
    /\ \E rec \in ArrRecords :
        arr_data' = Append(arr_data,
                           IF rec.ppid = PpidAbsent THEN rec
                           ELSE [rec EXCEPT !.ppid = PpidOf(Len(arr_data) + 1)])
    /\ UNCHANGED <<request, pc, arr_cycle, expected_arrivals, arr_out, exceptArr>>

\* calculate_expected_station_arrivals(data, target_start, target_end, cycle_times)
calculate_expected_station_arrivals ==
    /\ request = "arrivals"
    /\ pc = "input"
    /\ \E cycle_times \in CycleChoices :
        /\ arr_cycle' = cycle_times
        /\ expected_arrivals' = AllArrivals(ReadBeforeKeyError(arr_data), 1, cycle_times)
        /\ IF ReadBeforeKeyError(arr_data) # arr_data
           THEN pc' = "raised" /\ arr_out' = arr_out
           ELSE pc' = "returned" /\ arr_out' = Deduped(expected_arrivals')
    /\ UNCHANGED <<request, arr_data, exceptArr>>

(***************************************************************************)
(* Claims about calculate_expected_station_arrivals                        *)
(***************************************************************************)
ArrReturned == request = "arrivals" /\ pc = "returned"

ArrDone == request = "arrivals" /\ pc # "input"

StationIndex(station) == CHOOSE j \in 1..Len(ArrStations) : ArrStations[j] = station

\* The completion time recorded for the unit of an entry at a station, in
\* seconds; negative when there is none (the ppid of a unit is its position
\* in arr_data).
ActualAt(entry, station) == StampOf(arr_data[entry.ppid], station)

\* actual - expected of an appended entry, in tenths of a second.
ArrivalDiff(entry) ==
    ActualAt(entry, entry.downstream_station) * 10 - entry.expected_downstream_dt

\* C23: the status of every entry is not_completed exactly when the unit has
\* no actual arrival at the downstream stage; otherwise delayed when actual -
\* expected > 300 s, early when it is < -60 s, on_time for every difference
\* in [-60 s, 300 s], both bounds included.
C23_DelayStatus ==
    ArrDone =>
        /\ \A k \in 1..Len(expected_arrivals) :
            LET e == expected_arrivals[k]
            IN  /\ e.delay_status = "not_completed" <=> ActualAt(e, e.downstream_station) < 0
                /\ ActualAt(e, e.downstream_station) >= 0 =>
                    /\ e.delay_status = "delayed" <=> ArrivalDiff(e) > 3000
                    /\ e.delay_status = "early" <=> ArrivalDiff(e) < 0 - 600
                    /\ e.delay_status = "on_time"
                            <=> (ArrivalDiff(e) >= 0 - 600 /\ ArrivalDiff(e) <= 3000)
        /\ ArrReturned =>
            \A station \in DOMAIN arr_out : \A q \in 1..Len(arr_out[station]) :
                \E k \in 1..Len(expected_arrivals) :
                    /\ expected_arrivals[k].downstream_station = station
                    /\ expected_arrivals[k].ppid = arr_out[station][q].ppid
                    /\ expected_arrivals[k].delay_status = arr_out[station][q].delay_status

\* C23 witness: a returned result with an arrival exactly 300 s late and one
\* exactly 60 s early, both on_time.
C23_Witness ==
    /\ ArrReturned
    /\ "PACKING" \in DOMAIN arr_out
    /\ Len(arr_out["PACKING"]) = 2
    /\ arr_out["PACKING"][1].delay_seconds = <<3000>>
    /\ arr_out["PACKING"][1].delay_status = "on_time"
    /\ arr_out["PACKING"][2].delay_seconds = <<0 - 600>>
    /\ arr_out["PACKING"][2].delay_status = "on_time"

\* C24: for every hop to a downstream stage d the expected time is anchor +
\* median_seconds of the pair, the anchor being the actual completion time of
\* the stage just upstream of d when there is one, and otherwise the expected
\* time computed for that stage in the previous hop; source_time_is_actual
\* is true exactly when the actual time was used.
C24_AnchorOfHop ==
    ArrDone =>
        \A k \in 1..Len(expected_arrivals) :
            LET e == expected_arrivals[k]
                j == StationIndex(e.downstream_station)
                up == ActualAt(e, ArrStations[j - 1])
            IN  /\ e.source_station = ArrStations[j - 1]
                /\ e.source_time_is_actual <=> up >= 0
                /\ up >= 0 => e.expected_downstream_dt = up * 10 + arr_cycle[j - 1]
                /\ up < 0 =>
                    /\ k > 1
                    /\ expected_arrivals[k - 1].ppid = e.ppid
                    /\ expected_arrivals[k - 1].downstream_station = e.source_station
                    /\ e.expected_downstream_dt
                            = expected_arrivals[k - 1].expected_downstream_dt + arr_cycle[j - 1]

\* C24 witness: a unit that completed FINAL_VI at 10:00:00 and has no
\* FINAL_INSPECT time; with a median of 45.5 s its PACKING hop is anchored on
\* the expected 10:00:45.5 and expects 10:01:45.5.
C24_Witness ==
    /\ ArrReturned
    /\ \E k \in 2..Len(expected_arrivals) :
        /\ expected_arrivals[k].downstream_station = "PACKING"
        /\ ~expected_arrivals[k].source_time_is_actual
        /\ expected_arrivals[k - 1].expected_downstream_dt = 360455
        /\ expected_arrivals[k].source_completion_time = 36045
        /\ expected_arrivals[k].expected_downstream_dt = 361055

\* The entries appended for a unit and a downstream stage.
AppendedFor(ppid, station) ==
    {k \in 1..Len(expected_arrivals) :
        /\ expected_arrivals[k].ppid = ppid
        /\ expected_arrivals[k].downstream_station = station}

\* C25: the result holds at most one entry per (unit, downstream stage), and
\* that entry is one of those generated for the pair whose source completion
\* time is the latest.
C25_OneLatestEntry ==
    ArrReturned =>
        \A station \in DOMAIN arr_out : \A q \in 1..Len(arr_out[station]) :
            LET e == arr_out[station][q]
            IN  /\ \A r \in 1..Len(arr_out[station]) : arr_out[station][r].ppid = e.ppid => r = q
                /\ \E k \in AppendedFor(e.ppid, station) :
                        ReturnedEntry(expected_arrivals[k]) = e
                /\ \A k \in AppendedFor(e.ppid, station) :
                        expected_arrivals[k].source_completion_time <= e.source_completion_time

\* C25 witness: a unit that completed FINAL_VI and FINAL_INSPECT in the hour
\* has two entries generated for PACKING and one in the result.
C25_Witness ==
    /\ ArrReturned
    /\ Cardinality(AppendedFor(1, "PACKING")) = 2
    /\ "PACKING" \in DOMAIN arr_out
    /\ Cardinality({q \in 1..Len(arr_out["PACKING"]) : arr_out["PACKING"][q].ppid = 1}) = 1

\* C30: for a unit with an actual completion time at the stage just upstream
\* of d, the entry generated for (unit, d) is the same whichever stage the
\* forward walk started from, and it is the entry of the result.
C30_SameEntryFromEveryWalk ==
    ArrDone =>
        \A k \in 1..Len(expected_arrivals) :
            LET e == expected_arrivals[k]
                j == StationIndex(e.downstream_station)
            IN  ActualAt(e, ArrStations[j - 1]) >= 0 =>
                    /\ \A l \in AppendedFor(e.ppid, e.downstream_station) :
                            expected_arrivals[l] = e
                    /\ ArrReturned =>
                        \E q \in 1..Len(arr_out[e.downstream_station]) :
                            arr_out[e.downstream_station][q] = ReturnedEntry(e)

\* C30 witness: a unit that completed FINAL_VI at 10:00:00 and FINAL_INSPECT
\* at 10:00:00, well before the 10:01:00 expected from FINAL_VI: the walks
\* from both stages generate a PACKING entry, expected at 10:01:00.
C30_Witness ==
    /\ ArrReturned
    /\ Len(arr_data) >= 1
    /\ StampOf(arr_data[1], "FINAL_VI") = 36000
    /\ StampOf(arr_data[1], "FINAL_INSPECT") = 36000
    /\ Cardinality(AppendedFor(1, "PACKING")) = 2
    /\ \A k \in AppendedFor(1, "PACKING") : expected_arrivals[k].expected_downstream_dt = 360600

(***************************************************************************)
(* analyze_hourly_production_flow (src/core/analyzer/expected_packing.py)  *)
(***************************************************************************)
MaxDayRecords == 2

\* hour_start of an hour of analysis_date: HH:00:00
HourStart(hour) == hour * 3600

\* hour_end: (HH+1):00:00, and 23:59:59 for the last hour
HourEnd(hour) == IF hour < 23 THEN (hour + 1) * 3600 ELSE 23 * 3600 + 59 * 60 + 59

\* The explored records, all of analysis_date: FINAL_INSPECT absent, at
\* 23:00:00 or 23:59:59; PACKING absent, at 00:00:00, 00:59:59, 01:00:00 or
\* 23:59:59.
DayRecords ==
    {[stamps |-> [FINAL_INSPECT |-> a, PACKING |-> b]] :
        a \in {NoStamp, 82800, 86399}, b \in {NoStamp, 0, 3599, 3600, 86399}}

\* hourly_analysis: for each of the 24 hours with a PACKING completion or a
\* held unit, the counts and flow figures of calculate_expected_packing_output.
HourlyProductionFlow(data) ==
    LET analysis == [hour \in 0..23 |-> FlowAnalysis(data, HourStart(hour), HourEnd(hour)).out]
        active == {hour \in 0..23 :
                    \/ analysis[hour].station_counts[Len(FlowStations)] > 0
                    \/ analysis[hour].summary.total_held_units > 0}
    IN  [hour \in active |->
            [hour |-> hour,
             station_completions |-> analysis[hour].station_counts,
             flow_gaps |-> analysis[hour].flow_analysis,
             held_units_total |-> analysis[hour].summary.total_held_units,
             worst_bottleneck |-> analysis[hour].summary.worst_bottleneck,
             critical_flows |-> analysis[hour].summary.critical_flows,
             efficiency_issues |-> analysis[hour].summary.top_bottlenecks]]

NoDayOut == HourlyProductionFlow(<<>>)

\* The caller hands over one more process-flow record, one per unit.
AddDayRecord ==
    /\ request = "day"
    /\ pc = "input"
    /\ Len(day_data) < MaxDayRecords
    /\ \E rec \in DayRecords :
        day_data' = Append(day_data, [ppid |-> PpidOf(Len(day_data) + 1), stamps |-> rec.stamps])
    /\ UNCHANGED <<request, pc, day_out, exceptDay>>

\* analyze_hourly_production_flow(process_flow_data, analysis_date)
analyze_hourly_production_flow ==
    /\ request = "day"
    /\ pc = "input"
    /\ day_out' = HourlyProductionFlow(day_data)
    /\ pc' = "returned"
    /\ UNCHANGED <<request, day_data, exceptDay>>

(***************************************************************************)
(* Claims about the per-day hourly analyses                                *)
(***************************************************************************)
\* How many times the hour windows of the result count the completions of
\* the i-th station.
CountedInHours(i) ==
    SeqSum([h \in 1..24 |->
                IF (h - 1) \in DOMAIN day_out THEN day_out[h - 1].station_completions[i] ELSE 0])

\* The completions of the i-th station on analysis_date, 00:00:00 to 23:59:59.
CompletionsOfDay(i) ==
    Cardinality({k \in 1..Len(day_data) :
        /\ StampOf(day_data[k], FlowStations[i]) >= 0
        /\ StampOf(day_data[k], FlowStations[i]) <= 86399})

\* C28: every stage completion whose timestamp lies on analysis_date, from
\* 00:00:00 to 23:59:59 included, falls in exactly one of the 24 hour
\* windows: it is counted once and never dropped.
C28_EveryCompletionCountedOnce ==
    (request = "day" /\ pc = "returned") =>
        \A i \in 1..Len(FlowStations) : CountedInHours(i) = CompletionsOfDay(i)

(***************************************************************************)
(* calculate_hiding_evidence_score (src/core/analyzer/pcb_held.py)         *)
(***************************************************************************)
MaxBatchSize == 21

\* The delays of the units of a batch, in seconds: all two hours; two and
\* three hours in turn; or two, two and a half and three hours in turn.
DelayPatterns == {"same", "alternate", "ramp"}

DelayOf(pattern, i) ==
    IF pattern = "same" THEN 7200
    ELSE IF pattern = "alternate" THEN 7200 + 3600 * (i % 2)
    ELSE 7200 + 1800 * ((i - 1) % 3)

\* batch_pcbs: analysed units as analyze_pcb_delays leaves them.
ScoreBatch(n, pattern) ==
    [i \in 1..n |-> PcbAnalysis(PpidOf(i), 32400, 32400 + DelayOf(pattern, i))]

\* The calls explored: batches of up to MaxBatchSize units, and each period
\* on either side of its threshold (60, 10 and 120 minutes), in seconds.
ScoreCalls ==
    [batch_pcbs : {ScoreBatch(n, pattern) : n \in 0..MaxBatchSize, pattern \in DelayPatterns},
     inspection_period : {3599, 3600},
     packing_period : {599, 600},
     holding_period : {7200, 7201}]

NoScoreCall ==
    [batch_pcbs |-> <<>>, inspection_period |-> 0, packing_period |-> 0, holding_period |-> 0]

\* calculate_hiding_evidence_score(batch_pcbs, inspection_period,
\* packing_period, holding_period) on the arguments drawn at the start.
hiding_evidence_score_call ==
    /\ request = "score"
    /\ pc = "input"
    /\ score_out' = calculate_hiding_evidence_score(score_in.batch_pcbs, score_in.inspection_period,
                                                    score_in.packing_period, score_in.holding_period)
    /\ pc' = "returned"
    /\ UNCHANGED <<request, score_in, exceptScore>>

(***************************************************************************)
(* Claims about calculate_hiding_evidence_score                            *)
(***************************************************************************)
ScoreReturned == request = "score" /\ pc = "returned"

\* The standard deviation of the delays of the call is below half an hour:
\* sum((n * x - sum(x))^2) < 0.25 * n^2 * (n - 1), x in hundredths of an
\* hour; a list of fewer than two delays has deviation 0.
DelaysWithinHalfHour ==
    LET n == Len(score_in.batch_pcbs)
        x == [i \in 1..n |-> score_in.batch_pcbs[i].delay_hours]
        dev == [i \in 1..n |-> (n * x[i] - SeqSum(x)) * (n * x[i] - SeqSum(x))]
    IN  n < 2 \/ SeqSum(dev) < 2500 * n * n * (n - 1)

\* The sum of the four contributions of the call, in tenths.
ContributionSum ==
    LET size == Len(score_in.batch_pcbs)
    IN  (IF size >= 20 THEN 3 ELSE IF size >= 10 THEN 2 ELSE IF size >= 5 THEN 1 ELSE 0)
        + (IF score_in.inspection_period < 3600 /\ score_in.holding_period > 7200 THEN 3 ELSE 0)
        + (IF score_in.packing_period < 600 /\ size > 5 THEN 2 ELSE 0)
        + (IF DelaysWithinHalfHour THEN 2 ELSE 0)

\* C26: calculate_hiding_evidence_score returns min(1.0, s), s the sum of
\* the size contribution (0.3 from 20 units, 0.2 from 10, 0.1 from 5), 0.3
\* for an inspection period under 60 min with a holding period over 120 min,
\* 0.2 for a packing period under 10 min with more than 5 units, and 0.2 for
\* a standard deviation of the delays under 0.5 h; the result is in [0, 1].
C26_ScoreIsCappedSum ==
    ScoreReturned =>
        /\ score_out = (IF ContributionSum < 10 THEN ContributionSum ELSE 10)
        /\ score_out >= 0 /\ score_out <= 10

\* A batch of five units packed within ten minutes, its delays apart: only
\* the size contributes.
C26_Witness ==
    /\ ScoreReturned
    /\ Len(score_in.batch_pcbs) = 5
    /\ score_in.packing_period < 600
    /\ ~(score_in.inspection_period < 3600 /\ score_in.holding_period > 7200)
    /\ ~DelaysWithinHalfHour
    /\ score_out = 1

(***************************************************************************)
(* Specifications: one per component, and the engine serving any request   *)
(***************************************************************************)
DurIdle ==
    records_table = {} /\ dur_call = DefaultDurCall /\ dur_rows = <<>> /\ dur_queries = 0

EcdfIdle == ecdf_pairs = <<>> /\ ecdf_call = DefaultEcdfCall /\ ecdf_out = EmptyEcdf

HideIdle == suspicious_pcbs = <<>> /\ batch_call = DefaultBatchCall /\ batch_out = NotEnoughPcbs

AnalyzeIdle == clock = 0 /\ raw_data = <<>> /\ reports = <<>>

FlowIdle ==
    /\ flow_data = <<>>
    /\ flow_out = NoFlowOut
    /\ flow_counts = [current |-> 0, next |-> 0]
    /\ flow_entry = FlowEntry("FINAL_INSPECT", "PACKING", 0, 0)

HourlyIdle ==
    /\ hourly_data = <<>>
    /\ hourly_call = DefaultMaxCycle
    /\ hourly_out = NoHourlyOut
    /\ pct_in = [sorted_values |-> <<>>, q |-> 50]
    /\ pct_out = <<>>

ArrIdle ==
    /\ arr_data = <<>>
    /\ arr_cycle = [i \in 1..(Len(ArrStations) - 1) |-> DefaultMedian]
    /\ expected_arrivals = <<>>
    /\ arr_out = NoArrivals

DayIdle == day_data = <<>> /\ day_out = NoDayOut

ScoreIdle == score_in = NoScoreCall /\ score_out = 0

InitDur ==
    request = "durations" /\ pc = "input"
    /\ ScoreIdle /\ DayIdle /\ ArrIdle /\ DurIdle /\ EcdfIdle /\ HideIdle /\ AnalyzeIdle /\ FlowIdle /\ HourlyIdle

NextDur == InsertRecord \/ get_durations

SpecDur == InitDur /\ [][NextDur]_vars

InitEcdf ==
    request = "ecdf" /\ pc = "input"
    /\ ScoreIdle /\ DayIdle /\ ArrIdle /\ DurIdle /\ EcdfIdle /\ HideIdle /\ AnalyzeIdle /\ FlowIdle /\ HourlyIdle

NextEcdf == ReturnPair \/ get_ecdf

SpecEcdf == InitEcdf /\ [][NextEcdf]_vars

\* detect_batch_hiding_patterns as a function of its list: the list is drawn
\* whole and the call is the only step.
InitPermuted ==
    /\ request = "batches" /\ pc = "input"
    /\ suspicious_pcbs \in SuspiciousLists
    /\ batch_call = DefaultBatchCall /\ batch_out = NotEnoughPcbs
    /\ ScoreIdle /\ DayIdle /\ ArrIdle /\ DurIdle /\ EcdfIdle /\ AnalyzeIdle /\ FlowIdle /\ HourlyIdle

NextPermuted == detect_batch_hiding_patterns

SpecPermuted == InitPermuted /\ [][NextPermuted]_vars

\* detect_batch_hiding_patterns on the longer lists.
InitLong ==
    /\ request = "batches" /\ pc = "input"
    /\ suspicious_pcbs \in LongLists
    /\ batch_call = DefaultBatchCall /\ batch_out = NotEnoughPcbs
    /\ ScoreIdle /\ DayIdle /\ ArrIdle /\ DurIdle /\ EcdfIdle /\ AnalyzeIdle /\ FlowIdle /\ HourlyIdle

NextLong == detect_batch_hiding_patterns

SpecLong == InitLong /\ [][NextLong]_vars

InitHide ==
    request = "batches" /\ pc = "input"
    /\ ScoreIdle /\ DayIdle /\ ArrIdle /\ DurIdle /\ EcdfIdle /\ HideIdle /\ AnalyzeIdle /\ FlowIdle /\ HourlyIdle

NextHide == AddSuspiciousPcb \/ detect_batch_hiding_patterns

SpecHide == InitHide /\ [][NextHide]_vars

InitAnalyze ==
    request = "analyze" /\ pc = "input"
    /\ ScoreIdle /\ DayIdle /\ ArrIdle /\ DurIdle /\ EcdfIdle /\ HideIdle /\ AnalyzeIdle /\ FlowIdle /\ HourlyIdle

NextAnalyze == AddRawRecord \/ Tick \/ analyze_production_hiding_patterns

SpecAnalyze == InitAnalyze /\ [][NextAnalyze]_vars

\* The flow analysis on records, and its per-pair computation on the
\* completions of one pair drawn from 0..MaxCompletions.
InitFlow ==
    \/ request = "flow" /\ pc = "input"
       /\ ScoreIdle /\ DayIdle /\ ArrIdle /\ DurIdle /\ EcdfIdle /\ HideIdle /\ AnalyzeIdle /\ FlowIdle /\ HourlyIdle
    \/ /\ request = "flow_entry" /\ pc = "input"
       /\ ScoreIdle /\ DayIdle /\ ArrIdle /\ DurIdle /\ EcdfIdle /\ HideIdle /\ AnalyzeIdle /\ HourlyIdle
       /\ flow_data = <<>>
       /\ flow_out = NoFlowOut
       /\ flow_counts \in [current : 0..MaxCompletions, next : 0..MaxCompletions]
       /\ flow_entry = FlowEntry("FINAL_INSPECT", "PACKING", 0, 0)

NextFlow == AddFlowRecord \/ calculate_station_flow_analysis \/ flow_analysis_entry

SpecFlow == InitFlow /\ [][NextFlow]_vars

\* Ascending lists of up to MaxSample values out of 10, 20, 30, 40.
SortedSamples ==
    {xs \in UNION {[1..n -> {10, 20, 30, 40}] : n \in 0..MaxSample} :
        \A k \in 1..(Len(xs) - 1) : xs[k] <= xs[k + 1]}

\* The hourly table on records, and _safe_percentile on a drawn sample.
InitHourly ==
    \/ request = "hourly" /\ pc = "input"
       /\ ScoreIdle /\ DayIdle /\ ArrIdle /\ DurIdle /\ EcdfIdle /\ HideIdle /\ AnalyzeIdle /\ FlowIdle /\ HourlyIdle
    \/ /\ request = "percentile" /\ pc = "input"
       /\ ScoreIdle /\ DayIdle /\ ArrIdle /\ DurIdle /\ EcdfIdle /\ HideIdle /\ AnalyzeIdle /\ FlowIdle
       /\ hourly_data = <<>>
       /\ hourly_call = DefaultMaxCycle
       /\ hourly_out = NoHourlyOut
       /\ pct_in \in [sorted_values : SortedSamples, q : Quantiles]
       /\ pct_out = <<>>

NextHourly == AddHourlyRecord \/ compute_hourly_ct_table \/ safe_percentile_call

SpecHourly == InitHourly /\ [][NextHourly]_vars

InitArr ==
    request = "arrivals" /\ pc = "input"
    /\ ScoreIdle /\ DayIdle /\ ArrIdle /\ DurIdle /\ EcdfIdle /\ HideIdle /\ AnalyzeIdle /\ FlowIdle /\ HourlyIdle

NextArr == AddArrivalRecord \/ calculate_expected_station_arrivals

SpecArr == InitArr /\ [][NextArr]_vars

InitDay ==
    request = "day" /\ pc = "input"
    /\ ScoreIdle /\ DayIdle /\ ArrIdle /\ DurIdle /\ EcdfIdle /\ HideIdle /\ AnalyzeIdle /\ FlowIdle /\ HourlyIdle

NextDay == AddDayRecord \/ analyze_hourly_production_flow

SpecDay == InitDay /\ [][NextDay]_vars

\* calculate_hiding_evidence_score on arguments drawn at the start.
InitScore ==
    /\ request = "score" /\ pc = "input"
    /\ score_in \in ScoreCalls
    /\ score_out = 0
    /\ DayIdle /\ ArrIdle /\ DurIdle /\ EcdfIdle /\ HideIdle /\ AnalyzeIdle /\ FlowIdle /\ HourlyIdle

NextScore == hiding_evidence_score_call

SpecScore == InitScore /\ [][NextScore]_vars

Init == InitDur \/ InitEcdf \/ InitHide \/ InitAnalyze \/ InitFlow \/ InitHourly \/ InitArr \/ InitDay \/ InitScore

Next == NextDur \/ NextEcdf \/ NextHide \/ NextAnalyze \/ NextFlow \/ NextHourly \/ NextArr \/ NextDay \/ NextScore

Spec == Init /\ [][Next]_vars

====
